---- MODULE Spec2Model ----
(***************************************************************************)
(* A model of convert_with_paragraph_breaks.py: DocxToMarkdownConverter.   *)
(*                                                                         *)
(* Strings are sequences of one-character strings, so that strip(),        *)
(* lower(), the substring test and the f-string formatting of the source   *)
(* are computed and not assumed.  A Markdown line is such a sequence; the  *)
(* empty line is the empty sequence.                                    *)
(***************************************************************************)
EXTENDS Integers, Sequences, FiniteSets, TLC

VARIABLES
    \* ---- convert_to_markdown (one render pass) ----
    content_elements,   \* the argument of convert_to_markdown
    i,                  \* number of elements the for loop has processed
    list_counters,      \* numId -> (level -> count)
    prev_element,       \* the element of the previous iteration, or NoElement
    in_list_context,
    markdown_lines,
    rpc,                \* "idle" | "loop" | "done"
    result,             \* the returned string (after the clean-up pass)
    \* ---- convert_all / convert_file / extract_content_and_images ----
    source_dir,         \* the .docx files of the source directory
    queue,              \* per converter: the files convert_all has yet to visit
    pc,                 \* per converter: the next step
    cur,                \* per converter: docx_path of the running convert_file
    self_styles,        \* per converter: self.styles
    self_numbering,     \* per converter: self.numbering is loaded
    frame,              \* per converter: locals of extract_content_and_images
    raised,             \* per converter: an exception is propagating
    temp_exists,        \* the directory temp_docx_extract exists
    temp_files,         \* part -> the package whose copy lies in the directory
    temp_media,         \* the files of temp_docx_extract/word/media
    images_dir,         \* filename -> bytes
    output_dir,         \* stem -> contents of stem.md
    stdout,             \* the messages printed by convert_file
    \* ---- single calls on one converter ----
    cpc,                \* "idle" | "called" | "returned": the single call
    xml_elem,           \* the w:p node handed to _process_paragraph_formatted
    pending,            \* the element sequences still to be rendered
    returned            \* the calls of convert_to_markdown that returned

renderVars == <<content_elements, i, list_counters, prev_element,
                in_list_context, markdown_lines, rpc, result>>

procVars == <<source_dir, queue, pc, cur, self_styles, self_numbering, frame,
              raised,
              temp_exists, temp_files, temp_media, images_dir, output_dir,
              stdout>>

callVars == <<cpc, xml_elem, pending, returned>>

vars == <<renderVars, procVars, callVars>>

-----------------------------------------------------------------------------
(* Bounds of the model                                                     *)

\* longest element sequence handed to convert_to_markdown
MaxLen == 5

\* most files in the source directory of one convert_all run
MaxFiles == 4

\* longest sequence of block elements handed to convert_to_markdown
MaxBlocks == 4

\* most w:r children of the paragraph handed to _process_paragraph_formatted
MaxRuns == 3

\* longest sequence of mixed elements handed to convert_to_markdown
MaxPage == 4

\* longest sequence of list elements handed to convert_to_markdown
MaxItems == 4

\* longest element sequence of each of two successive renders
MaxDocLen == 2

-----------------------------------------------------------------------------
(* Strings                                                                 *)

Last(s) == s[Len(s)]

Whitespace == {" ", "\t", "\n"}

RECURSIVE LStrip(_)
LStrip(s) ==
    IF s # <<>> /\ Head(s) \in Whitespace THEN LStrip(Tail(s)) ELSE s

RECURSIVE RStrip(_)
RStrip(s) ==
    IF s # <<>> /\ Last(s) \in Whitespace
    THEN RStrip(SubSeq(s, 1, Len(s) - 1))
    ELSE s

\* str.strip()
Strip(s) == RStrip(LStrip(s))

UpperCase ==
    <<"A","B","C","D","E","F","G","H","I","J","K","L","M",
      "N","O","P","Q","R","S","T","U","V","W","X","Y","Z">>

LowerCase ==
    <<"a","b","c","d","e","f","g","h","i","j","k","l","m",
      "n","o","p","q","r","s","t","u","v","w","x","y","z">>

LowerChar(c) ==
    IF \E k \in 1..26 : UpperCase[k] = c
    THEN LowerCase[CHOOSE k \in 1..26 : UpperCase[k] = c]
    ELSE c

\* str.lower()
Lower(s) == [k \in 1..Len(s) |-> LowerChar(s[k])]

\* sub in s
Contains(sub, s) ==
    \E k \in 0..(Len(s) - Len(sub)) : SubSeq(s, k + 1, k + Len(sub)) = sub

DigitChars == <<"0","1","2","3","4","5","6","7","8","9">>

\* str(n) for a natural number n
RECURSIVE Dec(_)
Dec(n) ==
    IF n < 10 THEN <<DigitChars[n + 1]>>
    ELSE Dec(n \div 10) \o <<DigitChars[(n % 10) + 1]>>

RECURSIVE Repeat(_, _)
Repeat(s, n) == IF n = 0 THEN <<>> ELSE s \o Repeat(s, n - 1)

-----------------------------------------------------------------------------
(* Content elements (the dicts built by the extractor)                     *)

NoElement ==
    [type |-> "none", content |-> <<>>, level |-> 0, numId |-> 0,
     filename |-> <<>>, path |-> <<>>, language |-> <<>>, data |-> <<>>]

Styled(t, c) == [NoElement EXCEPT !.type = t, !.content = c]

Text(c) == Styled("text", c)

NumberedListItem(c, lvl, id) ==
    [NoElement EXCEPT !.type = "numbered_list", !.content = c,
                      !.level = lvl, !.numId = id]

ImagesPrefix == <<".", ".", "/", "i", "m", "a", "g", "e", "s", "/">>

Image(f) ==
    [NoElement EXCEPT !.type = "image", !.filename = f,
                      !.path = ImagesPrefix \o f]

PythonLanguage == <<"p", "y", "t", "h", "o", "n">>

Code(c) ==
    [NoElement EXCEPT !.type = "code", !.content = c,
                      !.language = PythonLanguage]

Table(d) == [NoElement EXCEPT !.type = "table", !.data = d]

-----------------------------------------------------------------------------
(* convert_to_markdown: the reset heuristics                               *)

CuePhrases ==
    { <<"c","o","u","l","d"," ","i","n","s","t","e","a","d",":">>,
      <<"m","i","g","h","t",":">>,
      <<"a","p","p","r","o","a","c","h",":">>,
      <<"f","o","l","l","o","w","i","n","g",":">>,
      <<"t","h","e","s","e",":">> }

EmptyDict == <<>>

DelKey(d, k) == [x \in (DOMAIN d) \ {k} |-> d[x]]

\* A slip that tests only the current element, not the previous one.
MeaningfulAfterList_anyPrev(prev, element) ==
    /\ element.type = "text"
    /\ Strip(element.content) # <<>>

\* A slip that takes any element after a numbered item for the paragraph
\* that ends the list.
MeaningfulAfterList_anyElement(prev, element) ==
    /\ prev.type = "numbered_list"
    /\ element.type # "numbered_list"

\* line 340 and 342: a non-empty text right after a numbered item
MeaningfulAfterList(prev, element) ==
    /\ prev.type # "none"
    /\ prev.type = "numbered_list"
    /\ element.type # "numbered_list"
    /\ element.type = "text"
    /\ Strip(element.content) # <<>>

\* A slip that forgets the counters at the list -> paragraph transition.
CountersAfterParagraph_keep(counters, prev, element) == counters

\* lines 339-345: list_counters after the list -> non-list check
CountersAfterParagraph(counters, prev, element) ==
    IF MeaningfulAfterList(prev, element) THEN EmptyDict ELSE counters

\* lines 349-354: a numbered item right after a text that introduces a list
IntroducesList(prev, element) ==
    /\ element.type = "numbered_list"
    /\ prev.type # "none"
    /\ prev.type # "numbered_list"
    /\ prev.type = "text"
    /\ Strip(prev.content) # <<>>
    /\ \E phrase \in CuePhrases : Contains(phrase, Lower(Strip(prev.content)))

\* A slip that skips the deletion at a list introduction.
CountersAfterIntro_keep(counters, prev, element) == counters

\* lines 348-358: list_counters after the non-list -> list check
CountersAfterIntro(counters, prev, element) ==
    IF IntroducesList(prev, element) /\ element.numId \in DOMAIN counters
    THEN DelKey(counters, element.numId)
    ELSE counters

\* A slip that continues the count of a level across a shallower item.
CountItem_keepDeeper(counters, numId, level) ==
    LET perList == IF numId \in DOMAIN counters THEN counters[numId] ELSE EmptyDict
        old     == IF level \in DOMAIN perList THEN perList[level] ELSE 0
    IN  (numId :> ((level :> old + 1) @@ perList)) @@ counters

\* A slip that starts a fresh counter at 0.
CountItem_fromZero(counters, numId, level) ==
    LET perList == IF numId \in DOMAIN counters THEN counters[numId] ELSE EmptyDict
        bumped  == IF level \in DOMAIN perList
                   THEN (level :> perList[level] + 1) @@ perList
                   ELSE (level :> 0) @@ perList
    IN  (numId :> [l \in {x \in DOMAIN bumped : x <= level} |-> bumped[l]])
            @@ counters

\* A slip that keeps the counters of one list at a time.
CountItem_oneList(counters, numId, level) ==
    LET perList == IF numId \in DOMAIN counters THEN counters[numId] ELSE EmptyDict
        old     == IF level \in DOMAIN perList THEN perList[level] ELSE 0
        bumped  == (level :> old + 1) @@ perList
    IN  (numId :> [l \in {x \in DOMAIN bumped : x <= level} |-> bumped[l]])

\* A slip that counts in steps of two.
CountItem_skip(counters, numId, level) ==
    LET perList == IF numId \in DOMAIN counters THEN counters[numId] ELSE EmptyDict
        old     == IF level \in DOMAIN perList THEN perList[level] ELSE 0
        bumped  == (level :> old + 2) @@ perList
    IN  (numId :> [l \in {x \in DOMAIN bumped : x <= level} |-> bumped[l]])
            @@ counters

\* lines 391-403: list_counters after counting one numbered item
CountItem(counters, numId, level) ==
    LET perList == IF numId \in DOMAIN counters THEN counters[numId] ELSE EmptyDict
        old     == IF level \in DOMAIN perList THEN perList[level] ELSE 0
        bumped  == (level :> old + 1) @@ perList
    IN  (numId :> [l \in {x \in DOMAIN bumped : x <= level} |-> bumped[l]])
            @@ counters

-----------------------------------------------------------------------------
(* convert_to_markdown: the lines of one element                           *)

HeadingLine(marker, c) == marker \o <<" ">> \o c

\* line 389 and 405: f"{indent}{counter}. {content}"
ListLine(level, counter, c) ==
    Repeat(<<" ", " ", " ">>, level) \o Dec(counter) \o <<".", " ">> \o c

\* line 422
ImageLine(e) ==
    <<"!", "[">> \o e.filename \o <<"]", "(">> \o e.path \o <<")">>

\* the character U+0060, named because the lexer reserves it
Backquote == "backquote"

Fence == <<Backquote, Backquote, Backquote>>

FencePython == Fence \o PythonLanguage

\* str.replace(old, empty string): leftmost non-overlapping occurrences
RECURSIVE Remove(_, _)
Remove(s, old) ==
    IF Len(s) < Len(old) THEN s
    ELSE IF SubSeq(s, 1, Len(old)) = old
         THEN Remove(SubSeq(s, Len(old) + 1, Len(s)), old)
         ELSE <<Head(s)>> \o Remove(Tail(s), old)

\* A slip that removes the tagged fences only.
CodeBody_taggedOnly(c) == Strip(Remove(c, FencePython))

\* lines 427-430
CodeBody(c) == Strip(Remove(Remove(c, FencePython), Fence))

RECURSIVE JoinWith(_, _)
JoinWith(sep, parts) ==
    IF parts = <<>> THEN <<>>
    ELSE IF Len(parts) = 1 THEN parts[1]
    ELSE parts[1] \o sep \o JoinWith(sep, Tail(parts))

\* lines 442, 444, 447: a row between bars, cells joined by space-bar-space
RowLine(row) == <<"|", " ">> \o JoinWith(<<" ", "|", " ">>, row) \o <<" ", "|">>

\* A slip that sizes the separator by the last row.
TableLines_sepByLastRow(data) ==
    IF data = <<>> THEN <<>>
    ELSE <<RowLine(data[1])>>
         \o <<RowLine([k \in 1..Len(data[Len(data)]) |-> <<"-", "-", "-">>])>>
         \o [k \in 1..(Len(data) - 1) |-> RowLine(data[k + 1])]
         \o << <<>> >>

\* lines 440-448
TableLines(data) ==
    IF data = <<>> THEN <<>>
    ELSE <<RowLine(data[1])>>
         \o <<RowLine([k \in 1..Len(data[1]) |-> <<"-", "-", "-">>])>>
         \o [k \in 1..(Len(data) - 1) |-> RowLine(data[k + 1])]
         \o << <<>> >>

\* A slip that puts an empty line after every paragraph.
ElementLines_blankAfterText(element, counters, ctx, next_elem) ==
    CASE element.type = "title" ->
             <<HeadingLine(<<"#">>, element.content), <<>> >>
      [] element.type = "heading1" ->
             <<HeadingLine(<<"#", "#">>, element.content), <<>> >>
      [] element.type = "heading2" ->
             <<HeadingLine(<<"#", "#", "#">>, element.content), <<>> >>
      [] element.type = "heading3" ->
             <<HeadingLine(<<"#", "#", "#", "#">>, element.content), <<>> >>
      [] element.type = "numbered_list" ->
             <<ListLine(element.level,
                        counters[element.numId][element.level],
                        element.content)>>
      [] element.type = "text" ->
             IF Strip(element.content) # <<>>
             THEN <<element.content, <<>> >>
             ELSE IF ~ctx THEN << <<>> >> ELSE <<>>
      [] element.type = "image" ->
             <<ImageLine(element), <<>> >>
      [] element.type = "code" ->
             <<Fence \o element.language, CodeBody(element.content),
               Fence, <<>> >>
      [] element.type = "table" ->
             TableLines(element.data)
      [] OTHER -> <<>>

\* A slip that lets an empty paragraph give an empty line inside a list too.
ElementLines_spacerAlways(element, counters, ctx, next_elem) ==
    CASE element.type = "title" ->
             <<HeadingLine(<<"#">>, element.content), <<>> >>
      [] element.type = "heading1" ->
             <<HeadingLine(<<"#", "#">>, element.content), <<>> >>
      [] element.type = "heading2" ->
             <<HeadingLine(<<"#", "#", "#">>, element.content), <<>> >>
      [] element.type = "heading3" ->
             <<HeadingLine(<<"#", "#", "#", "#">>, element.content), <<>> >>
      [] element.type = "numbered_list" ->
             <<ListLine(element.level,
                        counters[element.numId][element.level],
                        element.content)>>
      [] element.type = "text" ->
             IF Strip(element.content) # <<>>
             THEN IF next_elem.type # "none" /\ next_elem.type # "numbered_list"
                  THEN <<element.content, <<>> >>
                  ELSE <<element.content>>
             ELSE << <<>> >>
      [] element.type = "image" ->
             <<ImageLine(element), <<>> >>
      [] element.type = "code" ->
             <<Fence \o element.language, CodeBody(element.content),
               Fence, <<>> >>
      [] element.type = "table" ->
             TableLines(element.data)
      [] OTHER -> <<>>

\* lines 365-448: the lines one element appends, given the counters after
\* it was counted, the list context and the lookahead element
ElementLines(element, counters, ctx, next_elem) ==
    CASE element.type = "title" ->
             <<HeadingLine(<<"#">>, element.content), <<>> >>
      [] element.type = "heading1" ->
             <<HeadingLine(<<"#", "#">>, element.content), <<>> >>
      [] element.type = "heading2" ->
             <<HeadingLine(<<"#", "#", "#">>, element.content), <<>> >>
      [] element.type = "heading3" ->
             <<HeadingLine(<<"#", "#", "#", "#">>, element.content), <<>> >>
      [] element.type = "numbered_list" ->
             <<ListLine(element.level,
                        counters[element.numId][element.level],
                        element.content)>>
      [] element.type = "text" ->
             IF Strip(element.content) # <<>>
             THEN IF next_elem.type # "none" /\ next_elem.type # "numbered_list"
                  THEN <<element.content, <<>> >>
                  ELSE <<element.content>>
             ELSE IF ~ctx THEN << <<>> >> ELSE <<>>
      [] element.type = "image" ->
             <<ImageLine(element), <<>> >>
      [] element.type = "code" ->
             <<Fence \o element.language, CodeBody(element.content),
               Fence, <<>> >>
      [] element.type = "table" ->
             TableLines(element.data)
      [] OTHER -> <<>>

\* lines 333-451: one iteration of the for loop, on the local state of the loop
LoopBody(elements, idx, st) ==
    LET element   == elements[idx]
        prev      == st.prev_element
        next_elem == IF idx + 1 <= Len(elements) THEN elements[idx + 1]
                     ELSE NoElement
        needs_extra_space == MeaningfulAfterList(prev, element)
        c1   == CountersAfterParagraph(st.list_counters, prev, element)
        ctx1 == IF MeaningfulAfterList(prev, element) THEN FALSE
                ELSE st.in_list_context
        c2   == CountersAfterIntro(c1, prev, element)
        ctx2 == IF IntroducesList(prev, element) THEN TRUE ELSE ctx1
        l1   == IF /\ needs_extra_space
                   /\ st.markdown_lines # <<>>
                   /\ Last(st.markdown_lines) # <<>>
                THEN Append(st.markdown_lines, <<>>)
                ELSE st.markdown_lines
        c3   == IF element.type = "numbered_list"
                THEN CountItem(c2, element.numId, element.level)
                ELSE c2
        ctx3 == IF element.type = "numbered_list" THEN TRUE ELSE ctx2
    IN  [list_counters   |-> c3,
         prev_element    |-> element,
         in_list_context |-> ctx3,
         markdown_lines  |-> l1 \o ElementLines(element, c3, ctx2, next_elem)]

\* lines 326-331
LoopStart ==
    [list_counters   |-> EmptyDict,
     prev_element    |-> NoElement,
     in_list_context |-> FALSE,
     markdown_lines  |-> <<>>]

\* lines 453-463: drop an empty line that follows an empty line
RECURSIVE CleanLines(_, _)
CleanLines(lines, prev_empty) ==
    IF lines = <<>> THEN <<>>
    ELSE IF Head(lines) = <<>>
         THEN (IF prev_empty THEN <<>> ELSE << <<>> >>)
              \o CleanLines(Tail(lines), TRUE)
         ELSE <<Head(lines)>> \o CleanLines(Tail(lines), FALSE)

\* line 465: cleaned_lines joined by newlines
FinalString(lines) == JoinWith(<<"\n">>, CleanLines(lines, FALSE))

RECURSIVE RunLoop(_, _, _)
RunLoop(elements, done, st) ==
    IF done = Len(elements) THEN st
    ELSE RunLoop(elements, done + 1, LoopBody(elements, done + 1, st))

\* lines 324-465 as a function of the element sequence
ConvertToMarkdown(elements) ==
    FinalString(RunLoop(elements, 0, LoopStart).markdown_lines)

-----------------------------------------------------------------------------
(* Inputs of the render pass                                               *)

TxtItem   == <<"x">>
TxtRemark == <<"O", "k", ".">>
TxtCue    == <<" ", "T", "r", "y", " ", "T", "H", "E", "S", "E", ":", " ">>
TxtHead   == <<"I", "n", "t", "r", "o">>

ListIds == {5, 7}

Levels == {0, 1}

\* the elements that decide list numbering: items of two lists at two
\* levels, an empty spacer, a plain paragraph, a paragraph with a cue
\* phrase (upper case, padded with spaces), and a heading
ListPool ==
    { NumberedListItem(TxtItem, l, n) : l \in Levels, n \in ListIds }
    \cup { Text(<<>>), Text(TxtRemark), Text(TxtCue) }
    \cup { Styled("heading1", TxtHead) }

SeqsUpTo(S, n) == UNION { [1..k -> S] : k \in 0..n }

-----------------------------------------------------------------------------
(* Packages: what a .docx archive holds                                    *)

\* A part of the archive is absent, present but not well-formed XML, or ok.
\* XML nodes are records; attribute values that the code parses are strings.

\* a w:r node: the texts of its w:t children in order, and whether its
\* w:rPr holds w:b and w:i that are not switched off
RunOf(texts, b, it) == [texts |-> texts, bold |-> b, italic |-> it]

\* a run with one w:t child
Run(t, b, it) == RunOf(<<t>>, b, it)

\* a body paragraph: pStyle is a style id or "" (no w:pStyle), numPr is <<>>
\* or <<[ilvl, numId]>> (attribute strings), drawing tells whether it holds a
\* w:drawing, embed is the r:embed id of its blip or "" (none)
Para(style, numPr, runs, embed) ==
    [tag |-> "p", pStyle |-> style, numPr |-> numPr, runs |-> runs,
     drawing |-> embed # "", embed |-> embed, rows |-> <<>>]

\* no node in hand
NoNode == [tag |-> "none"]

\* a body table: rows of cells, a cell is a sequence of paragraphs
Tbl(rows) ==
    [tag |-> "tbl", pStyle |-> "", numPr |-> <<>>, runs |-> <<>>,
     drawing |-> FALSE, embed |-> "", rows |-> rows]

StyleDef(id, name) == [styleId |-> id, hasName |-> TRUE, name |-> name,
                       type |-> "paragraph"]

NameHeading1 == <<"h", "e", "a", "d", "i", "n", "g", " ", "1">>
NameTitle    == <<"T", "i", "t", "l", "e">>
NameNormal   == <<"N", "o", "r", "m", "a", "l">>

WordStyles ==
    <<StyleDef("Heading1", NameHeading1), StyleDef("Title", NameTitle),
      StyleDef("Normal", NameNormal)>>

PngSuffix == <<".", "p", "n", "g">>

MediaFile(stem, suffix, bytes) ==
    [stem |-> stem, suffix |-> suffix, bytes |-> bytes]

Img1 == MediaFile(<<"i", "m", "g", "1">>, PngSuffix, "1")

\* two byte strings whose MD5 digests share their first 8 hex digits
BytesA == "25302"
BytesB == "82945"

\* media files named as Word names them, with chosen bytes
Img1Of(bytes) == MediaFile(<<"i", "m", "g", "1">>, PngSuffix, bytes)
Img2Of(bytes) == MediaFile(<<"i", "m", "g", "2">>, PngSuffix, bytes)

\* a media file that is no image for line 60
ChartEmf == MediaFile(<<"c", "h", "a", "r", "t">>, <<".", "e", "m", "f">>, "2")

RelImageType == <<"r", "e", "l", "s", "/", "i", "m", "a", "g", "e">>

RelLinkType == <<"r", "e", "l", "s", "/", "l", "i", "n", "k">>

Rel(id, type, target) == [Id |-> id, Type |-> type, Target |-> target]

MediaPrefix == <<"m", "e", "d", "i", "a", "/">>

\* the state of each XML part: "absent", "malformed" or "ok"
PartStates(s, n, r, d) ==
    [styles |-> s, numbering |-> n, rels |-> r, document |-> d]

Package(stem, zip, state, styleDefs, media, relDefs, body) ==
    [stem |-> stem, zip |-> zip,
     styles |-> state.styles, styleDefs |-> styleDefs,
     numbering |-> state.numbering,
     media |-> media,
     rels |-> state.rels, relDefs |-> relDefs,
     document |-> state.document, body |-> body]

PlainRun(t) == Run(t, FALSE, FALSE)

\* a table cell: one paragraph for each text; an empty text gives a
\* paragraph without runs
CellOf(texts) ==
    [k \in 1..Len(texts) |->
        Para("", <<>>,
             IF texts[k] = <<>> THEN <<>> ELSE <<PlainRun(texts[k])>>, "")]

\* the relationship Word writes for an embedded picture
ImageRel(id, m) == Rel(id, RelImageType, MediaPrefix \o m.stem \o m.suffix)

NumPr(ilvl, numId) == <<[ilvl |-> ilvl, numId |-> numId]>>

\* the documents of the model, by file stem
Packages ==
    \* not a zip archive
    ("a" :> Package(<<"a">>, FALSE,
                    PartStates("absent", "absent", "absent", "absent"),
                    <<>>, {}, <<>>, <<>>))
    \* styles, an image, a heading, a paragraph and a picture
    @@ ("b" :> Package(<<"b">>, TRUE,
                    PartStates("ok", "absent", "ok", "ok"),
                    WordStyles, {Img1},
                    <<ImageRel("rId1", Img1)>>,
                    <<Para("Heading1", <<>>, <<PlainRun(TxtHead)>>, ""),
                      Para("", <<>>, <<PlainRun(TxtRemark)>>, ""),
                      Para("", <<>>, <<>>, "rId1")>>))
    \* no styles part; its paragraphs name styles all the same
    @@ ("c" :> Package(<<"c">>, TRUE,
                    PartStates("absent", "ok", "absent", "ok"),
                    <<>>, {}, <<>>,
                    <<Para("Heading1", <<>>, <<PlainRun(TxtHead)>>, ""),
                      Para("Title", NumPr(<<"0">>, <<"5">>),
                           <<PlainRun(TxtItem)>>, ""),
                      Para("", <<>>, <<PlainRun(TxtRemark)>>, "")>>))
    \* an archive without word/document.xml
    @@ ("d" :> Package(<<"d">>, TRUE,
                    PartStates("ok", "absent", "absent", "absent"),
                    WordStyles, {}, <<>>, <<>>))
    \* word/document.xml is not well-formed
    @@ ("e" :> Package(<<"e">>, TRUE,
                    PartStates("ok", "absent", "absent", "malformed"),
                    WordStyles, {}, <<>>, <<>>))
    \* styles and a short list
    @@ ("f" :> Package(<<"f">>, TRUE,
                    PartStates("ok", "ok", "absent", "ok"),
                    WordStyles, {}, <<>>,
                    <<Para("Normal", <<>>, <<PlainRun(TxtRemark)>>, ""),
                      Para("", NumPr(<<"0">>, <<"7">>),
                           <<PlainRun(TxtItem)>>, "")>>))
    \* the second paragraph has a numbering level that is no integer
    @@ ("g" :> Package(<<"g">>, TRUE,
                    PartStates("ok", "ok", "absent", "ok"),
                    WordStyles, {}, <<>>,
                    <<Para("", <<>>, <<PlainRun(TxtRemark)>>, ""),
                      Para("", NumPr(<<"x">>, <<"5">>),
                           <<PlainRun(TxtItem)>>, ""),
                      Para("Heading1", <<>>, <<PlainRun(TxtHead)>>, "")>>))
    \* tables: 1x1 with text, 1x1 with two paragraphs, 1x1 without text,
    \* one row of two cells, two rows of one cell
    @@ ("h" :> Package(<<"h">>, TRUE,
                    PartStates("ok", "absent", "absent", "ok"),
                    WordStyles, {}, <<>>,
                    <<Tbl(<< <<CellOf(<<TxtItem>>)>> >>),
                      Tbl(<< <<CellOf(<<TxtItem, TxtRemark>>)>> >>),
                      Tbl(<< <<CellOf(<< <<>> >>)>> >>),
                      Tbl(<< <<CellOf(<<TxtItem>>), CellOf(<<TxtRemark>>)>> >>),
                      Tbl(<< <<CellOf(<<TxtItem>>)>>,
                             <<CellOf(<<TxtRemark>>)>> >>)>>))
    \* "p q.docx": two media files with the same bytes
    @@ ("m" :> Package(<<"p", " ", "q">>, TRUE,
                    PartStates("absent", "absent", "ok", "ok"),
                    <<>>, {Img1Of(BytesA), Img2Of(BytesA)},
                    <<ImageRel("rId1", Img1Of(BytesA)),
                      ImageRel("rId2", Img2Of(BytesA))>>,
                    <<Para("", <<>>, <<>>, "rId1"),
                      Para("", <<>>, <<>>, "rId2")>>))
    \* "p:_q.docx": the same media name, other bytes with the same hash
    @@ ("n" :> Package(<<"p", ":", "_", "q">>, TRUE,
                    PartStates("absent", "absent", "ok", "ok"),
                    <<>>, {Img1Of(BytesB)},
                    <<ImageRel("rId1", Img1Of(BytesB))>>,
                    <<Para("", <<>>, <<>>, "rId1")>>))
    \* "p_q.docx": the same media name and bytes as in "p q.docx"
    @@ ("o" :> Package(<<"p", "_", "q">>, TRUE,
                    PartStates("absent", "absent", "ok", "ok"),
                    <<>>, {Img1Of(BytesA)},
                    <<ImageRel("rId1", Img1Of(BytesA))>>,
                    <<Para("", <<>>, <<>>, "rId1")>>))
    \* drawings: one resolvable, then a relationship that is no image, a
    \* target outside media/, a media file that is no image, a media file
    \* that is missing, and an id without a relationship
    @@ ("r" :> Package(<<"r">>, TRUE,
                    PartStates("ok", "absent", "ok", "ok"),
                    WordStyles, {Img1, ChartEmf},
                    <<ImageRel("rId1", Img1),
                      Rel("rId2", RelLinkType,
                          MediaPrefix \o Img1.stem \o Img1.suffix),
                      Rel("rId3", RelImageType,
                          <<"e", "m", "b", "/">> \o Img1.stem \o Img1.suffix),
                      ImageRel("rId4", ChartEmf),
                      ImageRel("rId5", MediaFile(<<"g", "o", "n", "e">>,
                                                 PngSuffix, ""))>>,
                    <<Para("", <<>>, <<>>, "rId1"),
                      Para("", <<>>, <<PlainRun(TxtRemark)>>, "rId2"),
                      Para("", <<>>, <<>>, "rId3"),
                      Para("", <<>>, <<>>, "rId4"),
                      Para("", <<>>, <<>>, "rId5"),
                      Para("", <<>>, <<>>, "rId9")>>))
    \* styles against numbering, empty paragraphs, a table in between
    @@ ("s" :> Package(<<"s">>, TRUE,
                    PartStates("ok", "ok", "absent", "ok"),
                    WordStyles, {}, <<>>,
                    <<Para("", <<>>, <<>>, ""),
                      Para("Title", NumPr(<<"1">>, <<"7">>),
                           <<PlainRun(TxtItem)>>, ""),
                      Para("Heading1", NumPr(<<"0">>, <<"7">>), <<>>, ""),
                      Para("Title", <<>>, <<PlainRun(TxtHead)>>, ""),
                      Para("", <<>>, <<PlainRun(TxtRemark)>>, ""),
                      Para("", <<>>, <<>>, ""),
                      Tbl(<< <<CellOf(<<TxtItem>>)>> >>),
                      Para("Heading1", <<>>, <<PlainRun(TxtHead)>>, "")>>))

DocIds == DOMAIN Packages

\* the order of sorted() on the file names of the model
FileOrder == <<"a", "b", "c", "d", "e", "f", "g", "h", "m", "n", "o", "r", "s">>

\* line 495: sorted(self.source_dir.glob("*.docx"))
SortedFiles(dir) ==
    LET pos == SelectSeq(FileOrder, LAMBDA d : d \in dir)
    IN  pos

-----------------------------------------------------------------------------
(* The extractor: pure parts                                               *)

\* lines 121-130: the style index after reading the style definitions
RECURSIVE LoadStyleDefs(_, _)
LoadStyleDefs(styles, defs) ==
    IF defs = <<>> THEN styles
    ELSE LET d == Head(defs)
             upd == IF d.styleId # "" /\ d.hasName
                    THEN (d.styleId :> [name |-> d.name, type |-> d.type])
                         @@ styles
                    ELSE styles
         IN  LoadStyleDefs(upd, Tail(defs))

\* lines 113-130: self.styles after _load_styles (part is not malformed)
LoadStyles(styles, part, defs) ==
    IF part = "ok" THEN LoadStyleDefs(styles, defs) ELSE styles

\* lines 142-151: <<style>> or <<>> for None
GetParagraphStyle(paragraph, styles) ==
    IF paragraph.pStyle # "" /\ paragraph.pStyle \in DOMAIN styles
    THEN <<styles[paragraph.pStyle]>>
    ELSE <<>>

\* int(s) succeeds: a digit string (signs and padding are left out)
IsInt(s) == s # <<>> /\ \A k \in 1..Len(s) : \E d \in 1..10 : DigitChars[d] = s[k]

RECURSIVE ParseInt(_)
ParseInt(s) ==
    IF s = <<>> THEN 0
    ELSE 10 * ParseInt(SubSeq(s, 1, Len(s) - 1))
         + ((CHOOSE d \in 1..10 : DigitChars[d] = Last(s)) - 1)

\* lines 153-165: [raised, info] where info is <<>> for None
GetNumberingInfo(paragraph) ==
    IF paragraph.numPr = <<>> THEN [raised |-> FALSE, info |-> <<>>]
    ELSE LET n == paragraph.numPr[1]
         IN  IF IsInt(n.ilvl) /\ IsInt(n.numId)
             THEN [raised |-> FALSE,
                   info |-> <<[level |-> ParseInt(n.ilvl),
                               numId |-> ParseInt(n.numId)]>>]
             ELSE [raised |-> TRUE, info |-> <<>>]

\* lines 195-203: the text of one w:t with the emphasis markers of its run
FormatText(text, is_bold, is_italic) ==
    IF is_bold /\ is_italic
    THEN <<"*", "*", "*">> \o text \o <<"*", "*", "*">>
    ELSE IF is_bold THEN <<"*", "*">> \o text \o <<"*", "*">>
    ELSE IF is_italic THEN <<"*">> \o text \o <<"*">>
    ELSE text

\* lines 193-208: each w:t of the run that has text is wrapped on its own,
\* and the wrapped parts are joined
FormatRun(r) ==
    LET kept == SelectSeq(r.texts, LAMBDA t : t # <<>>)
        text_parts == [k \in 1..Len(kept) |->
                          FormatText(kept[k], r.bold, r.italic)]
    IN  JoinWith(<<>>, text_parts)

\* lines 167-210
RECURSIVE ExtractTextWithFormatting(_)
ExtractTextWithFormatting(runs) ==
    IF runs = <<>> THEN <<>>
    ELSE FormatRun(Head(runs)) \o ExtractTextWithFormatting(Tail(runs))

TitleWord    == <<"t", "i", "t", "l", "e">>
Heading1Word == <<"h", "e", "a", "d", "i", "n", "g", " ", "1">>
Heading2Word == <<"h", "e", "a", "d", "i", "n", "g", " ", "2">>
Heading3Word == <<"h", "e", "a", "d", "i", "n", "g", " ", "3">>

\* A slip that tests the headings before the title.
StyleType_headingFirst(style) ==
    IF style = <<>> THEN "text"
    ELSE LET style_name == Lower(style[1].name)
         IN  IF Contains(Heading1Word, style_name) THEN "heading1"
             ELSE IF Contains(Heading2Word, style_name) THEN "heading2"
             ELSE IF Contains(Heading3Word, style_name) THEN "heading3"
             ELSE IF Contains(TitleWord, style_name) THEN "title"
             ELSE "text"

\* lines 240-256: the type the style gives
StyleType(style) ==
    IF style = <<>> THEN "text"
    ELSE LET style_name == Lower(style[1].name)
         IN  IF Contains(TitleWord, style_name) THEN "title"
             ELSE IF Contains(Heading1Word, style_name) THEN "heading1"
             ELSE IF Contains(Heading2Word, style_name) THEN "heading2"
             ELSE IF Contains(Heading3Word, style_name) THEN "heading3"
             ELSE "text"

\* A slip that appends a paragraph only when it has text.
ProcessParagraphFormatted_dropsEmpty(paragraph, rid_to_image, styles) ==
    LET image == IF /\ paragraph.drawing
                    /\ paragraph.embed # ""
                    /\ paragraph.embed \in DOMAIN rid_to_image
                 THEN <<Image(rid_to_image[paragraph.embed])>>
                 ELSE <<>>
        text  == ExtractTextWithFormatting(paragraph.runs)
        style == GetParagraphStyle(paragraph, styles)
        numbering == GetNumberingInfo(paragraph)
    IN  IF text # <<>>
        THEN IF numbering.raised
             THEN [raised |-> TRUE, elems |-> image]
             ELSE IF numbering.info # <<>>
                  THEN [raised |-> FALSE,
                        elems |-> image \o
                          <<NumberedListItem(text, numbering.info[1].level,
                                             numbering.info[1].numId)>>]
                  ELSE [raised |-> FALSE,
                        elems |-> image \o <<Styled(StyleType(style), text)>>]
        ELSE [raised |-> FALSE, elems |-> image]

\* A slip that lets a title or heading style win over the numbering.
ProcessParagraphFormatted_styleWins(paragraph, rid_to_image, styles) ==
    LET image == IF /\ paragraph.drawing
                    /\ paragraph.embed # ""
                    /\ paragraph.embed \in DOMAIN rid_to_image
                 THEN <<Image(rid_to_image[paragraph.embed])>>
                 ELSE <<>>
        text  == ExtractTextWithFormatting(paragraph.runs)
        style == GetParagraphStyle(paragraph, styles)
        numbering == GetNumberingInfo(paragraph)
    IN  IF text # <<>> \/ ~paragraph.drawing
        THEN IF numbering.raised
             THEN [raised |-> TRUE, elems |-> image]
             ELSE IF numbering.info # <<>> /\ StyleType(style) = "text"
                  THEN [raised |-> FALSE,
                        elems |-> image \o
                          <<NumberedListItem(text, numbering.info[1].level,
                                             numbering.info[1].numId)>>]
                  ELSE [raised |-> FALSE,
                        elems |-> image \o <<Styled(StyleType(style), text)>>]
        ELSE [raised |-> FALSE, elems |-> image]

\* lines 212-264: [raised, elems], the elements one paragraph appends
ProcessParagraphFormatted(paragraph, rid_to_image, styles) ==
    LET image == IF /\ paragraph.drawing
                    /\ paragraph.embed # ""
                    /\ paragraph.embed \in DOMAIN rid_to_image
                 THEN <<Image(rid_to_image[paragraph.embed])>>
                 ELSE <<>>
        text  == ExtractTextWithFormatting(paragraph.runs)
        style == GetParagraphStyle(paragraph, styles)
        numbering == GetNumberingInfo(paragraph)
    IN  IF text # <<>> \/ ~paragraph.drawing
        THEN IF numbering.raised
             THEN [raised |-> TRUE, elems |-> image]
             ELSE IF numbering.info # <<>>
                  THEN [raised |-> FALSE,
                        elems |-> image \o
                          <<NumberedListItem(text, numbering.info[1].level,
                                             numbering.info[1].numId)>>]
                  ELSE [raised |-> FALSE,
                        elems |-> image \o <<Styled(StyleType(style), text)>>]
        ELSE [raised |-> FALSE, elems |-> image]

\* the w:t texts of a paragraph, unformatted (lines 278-283)
RECURSIVE RawText(_)
RawText(runs) ==
    IF runs = <<>> THEN <<>>
    ELSE JoinWith(<<>>, Head(runs).texts) \o RawText(Tail(runs))

\* lines 302-322
ProcessRegularTable(table) ==
    LET CellText(cell) ==
            JoinWith(<<" ">>,
                SelectSeq([k \in 1..Len(cell) |->
                              ExtractTextWithFormatting(cell[k].runs)],
                          LAMBDA t : t # <<>>))
        RowData(row) == [k \in 1..Len(row) |-> CellText(row[k])]
        table_data == SelectSeq([k \in 1..Len(table.rows) |->
                                    RowData(table.rows[k])],
                                LAMBDA r : r # <<>>)
    IN  IF table_data # <<>> THEN <<Table(table_data)>> ELSE <<>>

\* A slip that leaves out the special case of the single cell.
ProcessTable_asRegular(table) == ProcessRegularTable(table)

\* lines 266-300
ProcessTable(table) ==
    IF Len(table.rows) = 1 /\ Len(table.rows[1]) = 1
    THEN LET cell == table.rows[1][1]
             cell_text == SelectSeq([k \in 1..Len(cell) |-> RawText(cell[k].runs)],
                                    LAMBDA t : t # <<>>)
         IN  IF cell_text # <<>>
             THEN <<Code(JoinWith(<<"\n">>, cell_text))>>
             ELSE <<>>
    ELSE ProcessRegularTable(table)

\* lines 98-104: the body loop; stops at the first element that raises
RECURSIVE ProcessBody(_, _, _, _)
ProcessBody(body, rid_to_image, styles, acc) ==
    IF body = <<>> THEN [raised |-> FALSE, elems |-> acc]
    ELSE LET elem == Head(body)
             r == IF elem.tag = "p"
                  THEN ProcessParagraphFormatted(elem, rid_to_image, styles)
                  ELSE [raised |-> FALSE, elems |-> ProcessTable(elem)]
         IN  IF r.raised
             THEN [raised |-> TRUE, elems |-> acc \o r.elems]
             ELSE ProcessBody(Tail(body), rid_to_image, styles, acc \o r.elems)

\* line 63: hashlib.md5(bytes).hexdigest()[:8] of the byte strings used
Md5Hex8(bytes) ==
    CASE bytes = "1" -> <<"c", "4", "c", "a", "4", "2", "3", "8">>
      [] bytes = "2" -> <<"c", "8", "1", "e", "7", "2", "8", "d">>
      [] bytes = BytesA -> <<"7", "b", "7", "6", "3", "d", "c", "b">>
      [] bytes = BytesB -> <<"7", "b", "7", "6", "3", "d", "c", "b">>
      [] OTHER       -> <<"d", "4", "1", "d", "8", "c", "d", "9">>

RECURSIVE ReplaceChar(_, _, _)
ReplaceChar(s, old, new) ==
    IF s = <<>> THEN <<>>
    ELSE (IF Head(s) = old THEN new ELSE <<Head(s)>>)
         \o ReplaceChar(Tail(s), old, new)

ImageSuffixes ==
    { <<".", "p", "n", "g">>, <<".", "j", "p", "g">>,
      <<".", "j", "p", "e", "g">>, <<".", "g", "i", "f">>,
      <<".", "b", "m", "p">> }

\* A slip that names the copy after the document and the media file only.
NewFilename_noHash(stem, image_file) ==
    ReplaceChar(ReplaceChar(stem, " ", <<"_">>), ":", <<>>)
        \o <<"_">> \o image_file.stem \o image_file.suffix

\* lines 62-64
NewFilename(stem, image_file) ==
    ReplaceChar(ReplaceChar(stem, " ", <<"_">>), ":", <<>>)
        \o <<"_">> \o image_file.stem \o <<"_">> \o Md5Hex8(image_file.bytes)
        \o image_file.suffix

\* lines 58-72: the images of a media directory, as name -> new filename
ImageMapping(stem, media) ==
    LET images == { m \in media : Lower(m.suffix) \in ImageSuffixes }
    IN  [name \in { m.stem \o m.suffix : m \in images } |->
            NewFilename(stem,
                CHOOSE m \in images : m.stem \o m.suffix = name)]

StartsWith(s, pre) == Len(s) >= Len(pre) /\ SubSeq(s, 1, Len(pre)) = pre

\* os.path.basename
RECURSIVE Basename(_)
Basename(s) ==
    IF \E k \in 1..Len(s) : s[k] = "/"
    THEN Basename(Tail(s))
    ELSE s

\* A slip that falls back to the name in the target when the media file
\* was not tracked.
RECURSIVE RidToImage_untracked(_, _)
RidToImage_untracked(relDefs, image_mapping) ==
    IF relDefs = <<>> THEN EmptyDict
    ELSE LET rel == Head(relDefs)
             rest == RidToImage_untracked(Tail(relDefs), image_mapping)
         IN  IF /\ Contains(<<"i", "m", "a", "g", "e">>, rel.Type)
                /\ StartsWith(rel.Target, MediaPrefix)
             THEN rest @@ (rel.Id :>
                     IF Basename(rel.Target) \in DOMAIN image_mapping
                     THEN image_mapping[Basename(rel.Target)]
                     ELSE Basename(rel.Target))
             ELSE rest

\* lines 80-87
RECURSIVE RidToImage(_, _)
RidToImage(relDefs, image_mapping) ==
    IF relDefs = <<>> THEN EmptyDict
    ELSE LET rel == Head(relDefs)
             rest == RidToImage(Tail(relDefs), image_mapping)
         IN  IF /\ Contains(<<"i", "m", "a", "g", "e">>, rel.Type)
                /\ StartsWith(rel.Target, MediaPrefix)
                /\ Basename(rel.Target) \in DOMAIN image_mapping
             THEN rest @@ (rel.Id :> image_mapping[Basename(rel.Target)])
             ELSE rest

-----------------------------------------------------------------------------
(* convert_all, convert_file and extract_content_and_images as processes   *)

\* converter instances; each runs convert_all on its own queue of files
Converters == {1, 2}

Parts == {"styles", "numbering", "rels", "document"}

NoFiles == [p \in Parts |-> ""]

NoFrame == [content_elements |-> <<>>, image_mapping |-> EmptyDict,
            rid_to_image |-> EmptyDict]

\* the state of a part as found in the temporary directory
PartState(part) ==
    IF temp_files[part] = "" THEN "absent"
    ELSE Packages[temp_files[part]][part]

\* lines 22-34 for each converter, and a working directory without the
\* temporary directory and without extracted images
FreshProcess ==
    /\ pc = [w \in Converters |-> "idle"]
    /\ cur = [w \in Converters |-> ""]
    /\ self_styles = [w \in Converters |-> EmptyDict]
    /\ self_numbering = [w \in Converters |-> FALSE]
    /\ frame = [w \in Converters |-> NoFrame]
    /\ raised = [w \in Converters |-> FALSE]
    /\ temp_exists = FALSE
    /\ temp_files = NoFiles
    /\ temp_media = {}
    /\ images_dir = EmptyDict
    /\ stdout = <<>>

\* ... and an empty output directory
Constructed ==
    /\ FreshProcess
    /\ output_dir = EmptyDict

\* no call of a single method is under way
CallIdle ==
    /\ cpc = "idle"
    /\ xml_elem = NoNode
    /\ pending = <<>>
    /\ returned = <<>>

ProcIdle ==
    /\ source_dir = {}
    /\ queue = [w \in Converters |-> <<>>]
    /\ Constructed

\* A slip that opens the output file for writing before the extraction.
NextFile_opensOutput(w) ==
    /\ pc[w] = "idle"
    /\ queue[w] # <<>>
    /\ cur' = [cur EXCEPT ![w] = Head(queue[w])]
    /\ queue' = [queue EXCEPT ![w] = Tail(queue[w])]
    /\ stdout' = Append(stdout, <<"Processing", Head(queue[w])>>)
    /\ frame' = [frame EXCEPT ![w] = NoFrame]
    /\ output_dir' = (Head(queue[w]) :> <<>>) @@ output_dir
    /\ pc' = [pc EXCEPT ![w] = "mkdir"]
    /\ UNCHANGED <<source_dir, self_styles, self_numbering, raised, temp_exists,
                   temp_files, temp_media, images_dir>>
    /\ UNCHANGED renderVars
    /\ UNCHANGED callVars

\* lines 493-504 (loop header) and 467-469: take the next file
NextFile(w) ==
    /\ pc[w] = "idle"
    /\ queue[w] # <<>>
    /\ cur' = [cur EXCEPT ![w] = Head(queue[w])]
    /\ queue' = [queue EXCEPT ![w] = Tail(queue[w])]
    /\ stdout' = Append(stdout, <<"Processing", Head(queue[w])>>)
    /\ frame' = [frame EXCEPT ![w] = NoFrame]
    /\ pc' = [pc EXCEPT ![w] = "mkdir"]
    /\ UNCHANGED <<source_dir, self_styles, self_numbering, raised, temp_exists,
                   temp_files, temp_media, images_dir, output_dir>>
    /\ UNCHANGED renderVars
    /\ UNCHANGED callVars

\* lines 38-43
Mkdir(w) ==
    /\ pc[w] = "mkdir"
    /\ temp_exists' = TRUE
    /\ pc' = [pc EXCEPT ![w] = "unzip"]
    /\ UNCHANGED <<source_dir, queue, cur, self_styles, self_numbering, frame, raised,
                   temp_files, temp_media, images_dir, output_dir, stdout>>
    /\ UNCHANGED renderVars
    /\ UNCHANGED callVars

\* lines 46-48: extractall writes the members over what lies there and
\* creates missing directories
Unzip(w) ==
    /\ pc[w] = "unzip"
    /\ LET pkg == Packages[cur[w]]
       IN  IF ~pkg.zip
           THEN /\ raised' = [raised EXCEPT ![w] = TRUE]
                /\ pc' = [pc EXCEPT ![w] = "finally"]
                /\ UNCHANGED <<temp_exists, temp_files, temp_media>>
           ELSE /\ temp_exists' = TRUE
                /\ temp_files' = [p \in Parts |->
                                     IF pkg[p] # "absent" THEN cur[w]
                                     ELSE temp_files[p]]
                /\ temp_media' =
                       { m \in temp_media :
                           \A n \in pkg.media :
                               n.stem \o n.suffix # m.stem \o m.suffix }
                       \cup pkg.media
                /\ pc' = [pc EXCEPT ![w] = "load"]
                /\ UNCHANGED raised
    /\ UNCHANGED <<source_dir, queue, cur, self_styles, self_numbering, frame,
                   images_dir, output_dir, stdout>>
    /\ UNCHANGED renderVars
    /\ UNCHANGED callVars

\* lines 50-54 with 113-140: _load_styles, then _load_numbering
Load(w) ==
    /\ pc[w] = "load"
    /\ IF PartState("styles") = "malformed"
       THEN /\ raised' = [raised EXCEPT ![w] = TRUE]
            /\ pc' = [pc EXCEPT ![w] = "finally"]
            /\ UNCHANGED <<self_styles, self_numbering>>
       ELSE /\ self_styles' = [self_styles EXCEPT ![w] =
                   LoadStyles(self_styles[w], PartState("styles"),
                       IF temp_files["styles"] = "" THEN <<>>
                       ELSE Packages[temp_files["styles"]].styleDefs)]
            /\ IF PartState("numbering") = "malformed"
               THEN /\ raised' = [raised EXCEPT ![w] = TRUE]
                    /\ pc' = [pc EXCEPT ![w] = "finally"]
                    /\ UNCHANGED self_numbering
               ELSE /\ self_numbering' = [self_numbering EXCEPT ![w] =
                           self_numbering[w] \/ PartState("numbering") = "ok"]
                    /\ pc' = [pc EXCEPT ![w] = "index"]
                    /\ UNCHANGED raised
    /\ UNCHANGED <<source_dir, queue, cur, frame, temp_exists, temp_files,
                   temp_media, images_dir, output_dir, stdout>>
    /\ UNCHANGED renderVars
    /\ UNCHANGED callVars

\* A slip that makes the names unique by numbering the copies with the
\* count of the files already in the images directory.
Index_countsFiles(w) ==
    /\ pc[w] = "index"
    /\ LET hashed  == ImageMapping(Packages[cur[w]].stem, temp_media)
           mapping == [n \in DOMAIN hashed |->
                          Dec(Cardinality(DOMAIN images_dir)) \o <<"_">>
                              \o hashed[n]]
           copies  == [f \in { mapping[n] : n \in DOMAIN mapping } |->
                          (CHOOSE m \in temp_media :
                              /\ m.stem \o m.suffix \in DOMAIN mapping
                              /\ mapping[m.stem \o m.suffix] = f).bytes]
       IN  /\ images_dir' = copies @@ images_dir
           /\ IF PartState("rels") = "malformed"
              THEN /\ raised' = [raised EXCEPT ![w] = TRUE]
                   /\ pc' = [pc EXCEPT ![w] = "finally"]
                   /\ frame' = [frame EXCEPT ![w].image_mapping = mapping]
              ELSE /\ frame' = [frame EXCEPT
                          ![w].image_mapping = mapping,
                          ![w].rid_to_image =
                              IF temp_files["rels"] = "" THEN EmptyDict
                              ELSE RidToImage(
                                       Packages[temp_files["rels"]].relDefs,
                                       mapping)]
                   /\ pc' = [pc EXCEPT ![w] = "parse"]
                   /\ UNCHANGED raised
    /\ UNCHANGED <<source_dir, queue, cur, self_styles, self_numbering, temp_exists,
                   temp_files, temp_media, output_dir, stdout>>
    /\ UNCHANGED renderVars
    /\ UNCHANGED callVars

\* lines 56-87: copy the images, then map relationship ids to them
Index(w) ==
    /\ pc[w] = "index"
    /\ LET mapping == ImageMapping(Packages[cur[w]].stem, temp_media)
           copies  == [f \in { mapping[n] : n \in DOMAIN mapping } |->
                          (CHOOSE m \in temp_media :
                              /\ m.stem \o m.suffix \in DOMAIN mapping
                              /\ mapping[m.stem \o m.suffix] = f).bytes]
       IN  /\ images_dir' = copies @@ images_dir
           /\ IF PartState("rels") = "malformed"
              THEN /\ raised' = [raised EXCEPT ![w] = TRUE]
                   /\ pc' = [pc EXCEPT ![w] = "finally"]
                   /\ frame' = [frame EXCEPT ![w].image_mapping = mapping]
              ELSE /\ frame' = [frame EXCEPT
                          ![w].image_mapping = mapping,
                          ![w].rid_to_image =
                              IF temp_files["rels"] = "" THEN EmptyDict
                              ELSE RidToImage(
                                       Packages[temp_files["rels"]].relDefs,
                                       mapping)]
                   /\ pc' = [pc EXCEPT ![w] = "parse"]
                   /\ UNCHANGED raised
    /\ UNCHANGED <<source_dir, queue, cur, self_styles, self_numbering, temp_exists,
                   temp_files, temp_media, output_dir, stdout>>
    /\ UNCHANGED renderVars
    /\ UNCHANGED callVars

\* lines 89-104: parse word/document.xml and walk its body
Parse(w) ==
    /\ pc[w] = "parse"
    /\ CASE PartState("document") = "absent" ->
                /\ pc' = [pc EXCEPT ![w] = "finally"]
                /\ UNCHANGED <<frame, raised>>
         [] PartState("document") = "malformed" ->
                /\ raised' = [raised EXCEPT ![w] = TRUE]
                /\ pc' = [pc EXCEPT ![w] = "finally"]
                /\ UNCHANGED frame
         [] OTHER ->
                LET r == ProcessBody(Packages[temp_files["document"]].body,
                                     frame[w].rid_to_image, self_styles[w], <<>>)
                IN  /\ frame' = [frame EXCEPT ![w].content_elements = r.elems]
                    /\ raised' = [raised EXCEPT ![w] = r.raised]
                    /\ pc' = [pc EXCEPT ![w] = "finally"]
    /\ UNCHANGED <<source_dir, queue, cur, self_styles, self_numbering, temp_exists,
                   temp_files, temp_media, images_dir, output_dir, stdout>>
    /\ UNCHANGED renderVars
    /\ UNCHANGED callVars

\* A slip that cleans up after the body instead of in a finally clause.
Finally_onSuccessOnly(w) ==
    /\ pc[w] = "finally"
    /\ IF raised[w]
       THEN UNCHANGED <<temp_exists, temp_files, temp_media>>
       ELSE /\ temp_exists' = FALSE
            /\ temp_files' = NoFiles
            /\ temp_media' = {}
    /\ pc' = [pc EXCEPT ![w] = IF raised[w] THEN "except" ELSE "write"]
    /\ UNCHANGED <<source_dir, queue, cur, self_styles, self_numbering, frame, raised,
                   images_dir, output_dir, stdout>>
    /\ UNCHANGED renderVars
    /\ UNCHANGED callVars

\* lines 106-111: the finally clause, then return or re-raise
Finally(w) ==
    /\ pc[w] = "finally"
    /\ temp_exists' = FALSE
    /\ temp_files' = NoFiles
    /\ temp_media' = {}
    /\ pc' = [pc EXCEPT ![w] = IF raised[w] THEN "except" ELSE "write"]
    /\ UNCHANGED <<source_dir, queue, cur, self_styles, self_numbering, frame, raised,
                   images_dir, output_dir, stdout>>
    /\ UNCHANGED renderVars
    /\ UNCHANGED callVars

\* lines 475-486: render, write the .md file, report
Write(w) ==
    /\ pc[w] = "write"
    /\ output_dir' = (cur[w] :> ConvertToMarkdown(frame[w].content_elements))
                         @@ output_dir
    /\ stdout' = Append(stdout, <<"Created", cur[w]>>)
    /\ pc' = [pc EXCEPT ![w] = "idle"]
    /\ UNCHANGED <<source_dir, queue, cur, self_styles, self_numbering, frame, raised,
                   temp_exists, temp_files, temp_media, images_dir>>
    /\ UNCHANGED renderVars
    /\ UNCHANGED callVars

\* A slip that lets the exception leave convert_file and end convert_all.
Except_propagates(w) ==
    /\ pc[w] = "except"
    /\ stdout' = Append(stdout, <<"Error", cur[w]>>)
    /\ raised' = [raised EXCEPT ![w] = FALSE]
    /\ queue' = [queue EXCEPT ![w] = <<>>]
    /\ pc' = [pc EXCEPT ![w] = "idle"]
    /\ UNCHANGED <<source_dir, cur, self_styles, self_numbering, frame, temp_exists,
                   temp_files, temp_media, images_dir, output_dir>>
    /\ UNCHANGED renderVars
    /\ UNCHANGED callVars

\* lines 488-491: the handler of convert_file
Except(w) ==
    /\ pc[w] = "except"
    /\ stdout' = Append(stdout, <<"Error", cur[w]>>)
    /\ raised' = [raised EXCEPT ![w] = FALSE]
    /\ pc' = [pc EXCEPT ![w] = "idle"]
    /\ UNCHANGED <<source_dir, queue, cur, self_styles, self_numbering, frame,
                   temp_exists, temp_files, temp_media, images_dir, output_dir>>
    /\ UNCHANGED renderVars
    /\ UNCHANGED callVars

ProcNext ==
    \E w \in Converters :
        \/ NextFile(w)
        \/ Mkdir(w)
        \/ Unzip(w)
        \/ Load(w)
        \/ Index(w)
        \/ Parse(w)
        \/ Finally(w)
        \/ Write(w)
        \/ Except(w)

RenderIdle ==
    /\ content_elements = <<>>
    /\ i = 0
    /\ list_counters = EmptyDict
    /\ prev_element = NoElement
    /\ in_list_context = FALSE
    /\ markdown_lines = <<>>
    /\ rpc = "idle"
    /\ result = <<>>

\* one converter runs convert_all over a source directory
BatchInit ==
    /\ Constructed
    /\ source_dir \in { d \in SUBSET DocIds : Cardinality(d) <= MaxFiles }
    /\ queue = [w \in Converters |-> IF w = 1 THEN SortedFiles(source_dir)
                                     ELSE <<>>]
    /\ RenderIdle
    /\ CallIdle

SpecBatch == BatchInit /\ [][ProcNext]_vars

\* two converters, each converting one file, in one working directory
ConcInit ==
    /\ Constructed
    /\ \E a \in DocIds : \E b \in DocIds \ {a} :
           /\ source_dir = {a, b}
           /\ queue = [w \in Converters |-> IF w = 1 THEN <<a>> ELSE <<b>>]
    /\ RenderIdle
    /\ CallIdle

SpecConc == ConcInit /\ [][ProcNext]_vars

\* what an earlier run left in an output file
Stale == <<"s", "t", "a", "l", "e">>

\* one converter runs convert_all over a source directory whose output
\* directory is empty or holds the .md files of an earlier run
RerunInit ==
    /\ FreshProcess
    /\ source_dir \in { d \in SUBSET DocIds : Cardinality(d) <= MaxFiles }
    /\ queue = [w \in Converters |-> IF w = 1 THEN SortedFiles(source_dir)
                                     ELSE <<>>]
    /\ \E old \in {{}, source_dir} : output_dir = [d \in old |-> Stale]
    /\ RenderIdle
    /\ CallIdle

SpecRerun == RerunInit /\ [][ProcNext]_vars

-----------------------------------------------------------------------------
(* The render pass as a process: one action per loop iteration             *)

RenderInit ==
    /\ content_elements \in SeqsUpTo(ListPool, MaxLen)
    /\ i = 0
    /\ list_counters = LoopStart.list_counters
    /\ prev_element = LoopStart.prev_element
    /\ in_list_context = LoopStart.in_list_context
    /\ markdown_lines = LoopStart.markdown_lines
    /\ rpc = "loop"
    /\ result = <<>>
    /\ ProcIdle
    /\ CallIdle

RenderStep ==
    /\ rpc = "loop"
    /\ i < Len(content_elements)
    /\ LET st == LoopBody(content_elements, i + 1,
                          [list_counters   |-> list_counters,
                           prev_element    |-> prev_element,
                           in_list_context |-> in_list_context,
                           markdown_lines  |-> markdown_lines])
       IN  /\ list_counters' = st.list_counters
           /\ prev_element' = st.prev_element
           /\ in_list_context' = st.in_list_context
           /\ markdown_lines' = st.markdown_lines
    /\ i' = i + 1
    /\ UNCHANGED <<content_elements, rpc, result>>
    /\ UNCHANGED procVars
    /\ UNCHANGED callVars

RenderReturn ==
    /\ rpc = "loop"
    /\ i = Len(content_elements)
    /\ result' = FinalString(markdown_lines)
    /\ rpc' = "done"
    /\ UNCHANGED <<content_elements, i, list_counters, prev_element,
                   in_list_context, markdown_lines>>
    /\ UNCHANGED procVars
    /\ UNCHANGED callVars

RenderNext == RenderStep \/ RenderReturn

SpecRender == RenderInit /\ [][RenderNext]_vars

\* the texts of the paragraphs of a 1x1 table cell, joined by newlines as
\* line 286 joins them: code between two lines x, with three fence lines
\* in the middle
TxtFenced ==
    JoinWith(<<"\n">>, <<TxtItem, Fence, Fence, Fence, TxtItem>>)

\* a cell that brings its own fences around one line of code
TxtOwnFences == JoinWith(<<"\n">>, <<FencePython, TxtItem, Fence>>)

\* the elements that decide the blank lines: an item, an empty and a blank
\* spacer, a paragraph, two code blocks and a table
BlockPool ==
    { NumberedListItem(TxtItem, 0, 5),
      Text(<<>>), Text(<<" ">>), Text(TxtRemark),
      Code(TxtFenced), Code(TxtOwnFences),
      Table(<< <<TxtItem>> >>) }

BlocksInit ==
    /\ content_elements \in SeqsUpTo(BlockPool, MaxBlocks)
    /\ i = 0
    /\ list_counters = LoopStart.list_counters
    /\ prev_element = LoopStart.prev_element
    /\ in_list_context = LoopStart.in_list_context
    /\ markdown_lines = LoopStart.markdown_lines
    /\ rpc = "loop"
    /\ result = <<>>
    /\ ProcIdle
    /\ CallIdle

SpecBlocks == BlocksInit /\ [][RenderNext]_vars

-----------------------------------------------------------------------------
(* _process_paragraph_formatted called on one paragraph                    *)

NameBoth ==
    <<"T", "I", "T", "L", "E", " ", "h", "e", "a", "d", "i", "n", "g", " ", "2">>
NameHeading2Upper == <<"H", "E", "A", "D", "I", "N", "G", " ", "2">>
NameHeading3In ==
    <<"M", "y", " ", "H", "e", "a", "d", "i", "n", "g", " ", "3">>
NameHeading10 == <<"h", "e", "a", "d", "i", "n", "g", " ", "1", "0">>
NameSubtitle == <<"S", "u", "b", "t", "i", "t", "l", "e">>
NameNoSpace == <<"H", "e", "a", "d", "i", "n", "g", "1">>

\* a styles part whose display names mix case, hold two of the words, hold
\* a word inside a longer one, or hold none; the last w:style has no w:name
VariedStyles ==
    <<StyleDef("S1", NameBoth), StyleDef("S2", NameHeading2Upper),
      StyleDef("S3", NameHeading3In), StyleDef("S4", NameHeading10),
      StyleDef("S5", NameSubtitle), StyleDef("S6", NameNoSpace),
      StyleDef("S7", NameNormal), StyleDef("S8", NameHeading1),
      [styleId |-> "S9", hasName |-> FALSE, name |-> <<>>,
       type |-> "paragraph"]>>

\* the values of w:pStyle: none, the ids of the part, and an id it lacks
StyleIds == {""} \cup { VariedStyles[k].styleId : k \in 1..Len(VariedStyles) }
                \cup {"Zz"}

\* runs: plain, bold, italic, both; a bold run with two w:t children (as
\* around a w:tab or w:br); a bold run whose w:t has no text
RunPool ==
    { Run(TxtItem, b, it) : b \in BOOLEAN, it \in BOOLEAN }
    \cup { RunOf(<<TxtItem, TxtRemark>>, TRUE, FALSE),
           Run(<<>>, TRUE, FALSE) }

ImageName == <<"b", "_", "i", "m", "g", "1", ".", "p", "n", "g">>

\* extract_content_and_images has loaded the styles (lines 50-51) and
\* mapped one relationship (lines 74-87); the body loop hands one w:p to
\* _process_paragraph_formatted (lines 98-101)
ParagraphInit ==
    /\ pc = [w \in Converters |-> "idle"]
    /\ cur = [w \in Converters |-> ""]
    /\ self_styles = [w \in Converters |->
                         IF w = 1 THEN LoadStyles(EmptyDict, "ok", VariedStyles)
                         ELSE EmptyDict]
    /\ self_numbering = [w \in Converters |-> FALSE]
    /\ \E before \in {<<>>, <<Text(TxtRemark)>>} :
           frame = [w \in Converters |->
                       IF w = 1
                       THEN [content_elements |-> before,
                             image_mapping |-> EmptyDict,
                             rid_to_image |-> ("rId1" :> ImageName)]
                       ELSE NoFrame]
    /\ raised = [w \in Converters |-> FALSE]
    /\ temp_exists = FALSE
    /\ temp_files = NoFiles
    /\ temp_media = {}
    /\ images_dir = EmptyDict
    /\ output_dir = EmptyDict
    /\ stdout = <<>>
    /\ source_dir = {}
    /\ queue = [w \in Converters |-> <<>>]
    /\ RenderIdle
    /\ cpc = "called"
    /\ xml_elem \in { Para(style, numPr, runs, embed) :
                          style \in StyleIds,
                          numPr \in {<<>>, NumPr(<<"0">>, <<"5">>)},
                          runs \in SeqsUpTo(RunPool, MaxRuns),
                          embed \in {"", "rId1"} }
    /\ pending = <<>>
    /\ returned = <<>>

\* lines 212-264: the call appends to the list it was given
ProcessParagraphCall ==
    /\ cpc = "called"
    /\ LET r == ProcessParagraphFormatted(xml_elem, frame[1].rid_to_image,
                                          self_styles[1])
       IN  /\ frame' = [frame EXCEPT ![1].content_elements = @ \o r.elems]
           /\ raised' = [raised EXCEPT ![1] = r.raised]
    /\ cpc' = "returned"
    /\ UNCHANGED <<source_dir, queue, pc, cur, self_styles, self_numbering,
                   temp_exists, temp_files, temp_media, images_dir, output_dir,
                   stdout>>
    /\ UNCHANGED <<xml_elem, pending, returned>>
    /\ UNCHANGED renderVars

SpecParagraph == ParagraphInit /\ [][ProcessParagraphCall]_vars

-----------------------------------------------------------------------------
(* convert_to_markdown on mixed elements, on lists, and called twice       *)

\* code that holds a tagged fence inside a run of backquotes, and a run of
\* seven backquotes
TxtNested ==
    <<Backquote, Backquote>> \o FencePython \o <<Backquote, "x">>
        \o Fence \o Fence \o <<Backquote>>

\* the data of a table of two rows of three cells, and of a table whose
\* three rows differ in length
Grid2x3 == << <<TxtItem, TxtRemark, TxtItem>>, <<TxtRemark, TxtItem, TxtItem>> >>
GridRagged == << <<TxtItem>>, <<TxtRemark>>, <<TxtItem, TxtRemark>> >>

\* one element of every kind the renderer tells apart
PagePool ==
    { NumberedListItem(TxtItem, 0, 5),
      Text(<<>>), Text(<<" ">>), Text(TxtRemark),
      Styled("heading1", TxtHead), Image(ImageName),
      Code(TxtNested), Table(Grid2x3), Table(GridRagged) }

PageInit ==
    /\ content_elements \in SeqsUpTo(PagePool, MaxPage)
    /\ i = 0
    /\ list_counters = LoopStart.list_counters
    /\ prev_element = LoopStart.prev_element
    /\ in_list_context = LoopStart.in_list_context
    /\ markdown_lines = LoopStart.markdown_lines
    /\ rpc = "loop"
    /\ result = <<>>
    /\ ProcIdle
    /\ CallIdle

SpecPage == PageInit /\ [][RenderNext]_vars

\* items of two lists at two levels, an empty spacer, a paragraph and a
\* paragraph with a cue phrase
ItemPool ==
    { NumberedListItem(TxtItem, l, n) : l \in Levels, n \in ListIds }
    \cup { Text(<<>>), Text(TxtRemark), Text(TxtCue) }

ItemsInit ==
    /\ content_elements \in SeqsUpTo(ItemPool, MaxItems)
    /\ i = 0
    /\ list_counters = LoopStart.list_counters
    /\ prev_element = LoopStart.prev_element
    /\ in_list_context = LoopStart.in_list_context
    /\ markdown_lines = LoopStart.markdown_lines
    /\ rpc = "loop"
    /\ result = <<>>
    /\ ProcIdle
    /\ CallIdle

SpecItems == ItemsInit /\ [][RenderNext]_vars

\* the documents one converter renders one after the other
DocPool == { NumberedListItem(TxtItem, 0, 5), Text(<<>>), Text(TxtRemark) }

\* the first call of convert_to_markdown has started and a second document
\* waits for its call
TwiceInit ==
    /\ content_elements \in SeqsUpTo(DocPool, MaxDocLen)
    /\ i = 0
    /\ list_counters = LoopStart.list_counters
    /\ prev_element = LoopStart.prev_element
    /\ in_list_context = LoopStart.in_list_context
    /\ markdown_lines = LoopStart.markdown_lines
    /\ rpc = "loop"
    /\ result = <<>>
    /\ ProcIdle
    /\ cpc = "idle"
    /\ xml_elem = NoNode
    /\ \E next_doc \in SeqsUpTo(DocPool, MaxDocLen) : pending = <<next_doc>>
    /\ returned = <<>>

\* A slip that keeps the counters and the list context in the converter,
\* so that a call starts with what the call before it left.
RenderCall_keepsState ==
    /\ rpc = "done"
    /\ pending # <<>>
    /\ returned' = Append(returned, [elements |-> content_elements,
                                     markdown |-> result])
    /\ content_elements' = Head(pending)
    /\ pending' = Tail(pending)
    /\ i' = 0
    /\ prev_element' = LoopStart.prev_element
    /\ markdown_lines' = LoopStart.markdown_lines
    /\ rpc' = "loop"
    /\ result' = <<>>
    /\ UNCHANGED <<list_counters, in_list_context>>
    /\ UNCHANGED <<cpc, xml_elem>>
    /\ UNCHANGED procVars

\* lines 324-331: the next call of convert_to_markdown on the same
\* converter; the call before it has returned its string
RenderCall ==
    /\ rpc = "done"
    /\ pending # <<>>
    /\ returned' = Append(returned, [elements |-> content_elements,
                                     markdown |-> result])
    /\ content_elements' = Head(pending)
    /\ pending' = Tail(pending)
    /\ i' = 0
    /\ list_counters' = LoopStart.list_counters
    /\ prev_element' = LoopStart.prev_element
    /\ in_list_context' = LoopStart.in_list_context
    /\ markdown_lines' = LoopStart.markdown_lines
    /\ rpc' = "loop"
    /\ result' = <<>>
    /\ UNCHANGED <<cpc, xml_elem>>
    /\ UNCHANGED procVars

TwiceNext == RenderStep \/ RenderReturn \/ RenderCall

SpecTwice == TwiceInit /\ [][TwiceNext]_vars

-----------------------------------------------------------------------------
(* Properties of the render pass                                           *)

IsItem(e) == e.type = "numbered_list"

\* a Text the renderer treats as a paragraph: something is left after strip
IsNonEmptyText(e) == e.type = "text" /\ Strip(e.content) # <<>>

IsCueText(e) ==
    /\ e.type = "text"
    /\ e.content # <<>>
    /\ \E phrase \in CuePhrases : Contains(phrase, Lower(e.content))

SameList(e, f) == IsItem(e) /\ IsItem(f) /\ e.numId = f.numId

SameKey(e, f) == SameList(e, f) /\ e.level = f.level

\* the line of element k, when element k is the item rendered last
RenderedAs(k, counter) ==
    /\ markdown_lines # <<>>
    /\ Last(markdown_lines) =
           ListLine(content_elements[k].level, counter,
                    content_elements[k].content)

\* no numbered item at the positions a..b
NoItemIn(a, b) == \A m \in a..b : ~IsItem(content_elements[m])

\* C1: when a non-empty Text immediately follows a NumberedListItem, every
\* list counter is dropped at that Text, and the next NumberedListItem after
\* it, of any list id and level, is emitted with counter 1.
C1_ParagraphAfterItemResetsAll ==
    \A j \in 2..i :
        (IsNonEmptyText(content_elements[j]) /\ IsItem(content_elements[j - 1]))
        => /\ (i = j => list_counters = EmptyDict /\ ~in_list_context)
           /\ (i > j /\ IsItem(content_elements[i]) /\ NoItemIn(j + 1, i - 1))
                  => RenderedAs(i, 1)

\* C1 witness: item(5) First, item(5) Second, Text, item(5) Third has been
\* rendered and the third item carries counter 1.
C1_Witness ==
    /\ i = 4
    /\ content_elements[1] = NumberedListItem(TxtItem, 0, 5)
    /\ content_elements[2] = NumberedListItem(TxtItem, 0, 5)
    /\ content_elements[3] = Text(TxtRemark)
    /\ content_elements[4] = NumberedListItem(TxtItem, 0, 5)
    /\ markdown_lines = << <<"1", ".", " ", "x">>, <<"2", ".", " ", "x">>,
                           <<>>, TxtRemark, <<"1", ".", " ", "x">> >>

\* positions a..b hold items of one list id and level, and a starts the run
IsRun(a, b) ==
    /\ 1 <= a /\ a <= b /\ b <= Len(content_elements)
    /\ \A m \in a..b : SameKey(content_elements[m], content_elements[a])
    /\ (a > 1 => ~SameKey(content_elements[a - 1], content_elements[a]))

\* C2 as claimed: every run of N consecutive items of one list id and level
\* is numbered 1, 2, ..., N (stated for each prefix of the run as it is
\* rendered).
C2_Original_RunCountsFromOne ==
    \A a \in 1..i : IsRun(a, i) => RenderedAs(i, i - a + 1)

\* rendering element q drops the counter of list id and level (id, lvl)
\* before any counting: a paragraph right after an item, a cue introduction
\* of the list, or an item of the list at a shallower level
DropsCounter(q, id, lvl) ==
    LET e == content_elements[q]
    IN  \/ q > 1 /\ IsNonEmptyText(e) /\ IsItem(content_elements[q - 1])
        \/ q > 1 /\ IsItem(e) /\ e.numId = id /\ IsCueText(content_elements[q - 1])
        \/ IsItem(e) /\ e.numId = id /\ e.level < lvl

\* the earlier items of the key of item k that no reset separates from k
Carried(k) ==
    LET e == content_elements[k]
    IN  { p \in 1..(k - 1) :
            /\ SameKey(content_elements[p], e)
            /\ \A q \in (p + 1)..k : ~DropsCounter(q, e.numId, e.level) }

\* C2 amended: the items of a run are numbered c+1, ..., c+N, where c is the
\* number of earlier items of the same list id and level that no reset
\* separates from the run; 1, ..., N when there is none.
C2_RunCountsFromCarried ==
    \A a \in 1..i :
        IsRun(a, i) => RenderedAs(i, Cardinality(Carried(a)) + (i - a + 1))

\* C2 witness: a run of two items that follows an earlier item of the same
\* list across a heading is numbered 2, 3.
C2_Witness ==
    /\ i = 4
    /\ IsRun(3, 4)
    /\ Cardinality(Carried(3)) = 1
    /\ ~IsItem(content_elements[2])
    /\ RenderedAs(4, 3)

\* C3: after items at level b, an item at a shallower level a of the same
\* list discards the level-b counter, so the next level-b item of the list
\* is emitted with counter 1; the level-a item itself continues the count
\* of level a across the deeper items.
C3_ShallowerItemDropsDeeper ==
    \A j \in 1..(i - 1) :
        LET e == content_elements[i]
            f == content_elements[j]
        IN  /\ ( /\ SameList(f, e) /\ f.level < e.level
                 /\ \A m \in (j + 1)..(i - 1) :
                        ~SameKey(content_elements[m], e) )
               => RenderedAs(i, 1)
            /\ ( /\ SameKey(f, e)
                 /\ j < i - 1
                 /\ \A m \in (j + 1)..(i - 1) :
                        /\ SameList(content_elements[m], e)
                        /\ content_elements[m].level > e.level )
               => \E c \in 1..Len(content_elements) :
                      /\ markdown_lines[Len(markdown_lines) - (i - j)]
                             = ListLine(f.level, c, f.content)
                      /\ RenderedAs(i, c + 1)

\* C3 witness: level 1, level 1, level 0, level 1 of one list: the last item
\* restarts at 1 although level 1 had reached 2.
C3_Witness ==
    /\ i = 4
    /\ \A m \in 1..4 : SameList(content_elements[m], content_elements[1])
    /\ content_elements[1].level = 1
    /\ content_elements[2].level = 1
    /\ content_elements[3].level = 0
    /\ content_elements[4].level = 1
    /\ markdown_lines[2] = ListLine(1, 2, TxtItem)
    /\ RenderedAs(4, 1)

\* C4 as claimed: a non-empty Text anywhere between two numbered items makes
\* the later item restart at 1.
C4_Original_AnyParagraphResets ==
    \A j \in 1..i : \A t \in (j + 1)..(i - 1) :
        ( /\ IsItem(content_elements[j])
          /\ IsNonEmptyText(content_elements[t])
          /\ IsItem(content_elements[i]) )
        => RenderedAs(i, 1)

\* C4 amended: between an item j and the next item i, a non-empty Text
\* right after j restarts the numbering; a non-empty Text separated from j
\* by another element resets nothing, and an item of the same list id and
\* level continues the count unless the Text right before it holds a cue.
C4_OnlyAdjacentParagraphResets ==
    \A j \in 1..(i - 2) :
        ( /\ IsItem(content_elements[j])
          /\ IsItem(content_elements[i])
          /\ NoItemIn(j + 1, i - 1)
          /\ \E t \in (j + 1)..(i - 1) : IsNonEmptyText(content_elements[t]) )
        => /\ IsNonEmptyText(content_elements[j + 1]) => RenderedAs(i, 1)
           /\ ( /\ ~IsNonEmptyText(content_elements[j + 1])
                /\ SameKey(content_elements[j], content_elements[i])
                /\ ~IsCueText(content_elements[i - 1]) )
              => \E c \in 1..Len(content_elements) : RenderedAs(i, c + 1)

\* C4 witness: item, heading, paragraph, item of the same list: the later
\* item is numbered 2.
C4_Witness ==
    /\ i = 4
    /\ content_elements[1] = NumberedListItem(TxtItem, 0, 5)
    /\ content_elements[2].type = "heading1"
    /\ content_elements[3] = Text(TxtRemark)
    /\ content_elements[4] = NumberedListItem(TxtItem, 0, 5)
    /\ RenderedAs(4, 2)

\* C5: an item right after a non-empty Text holding a cue phrase is numbered
\* with all counters of its list id dropped first: it is emitted with counter
\* 1 and its list id then holds that one counter; the counters of every other
\* list id are unchanged.
C5_CueDropsOnlyItsList ==
    [][ ( /\ rpc = "loop"
          /\ 1 <= i /\ i < Len(content_elements)
          /\ IsItem(content_elements[i + 1])
          /\ IsCueText(content_elements[i]) )
        => LET e == content_elements[i + 1]
           IN  /\ Last(markdown_lines') = ListLine(e.level, 1, e.content)
               /\ list_counters'[e.numId] = (e.level :> 1)
               /\ DOMAIN list_counters' = DOMAIN list_counters \cup {e.numId}
               /\ \A n \in DOMAIN list_counters \ {e.numId} :
                      list_counters'[n] = list_counters[n]
      ]_vars

\* C5 witness: list 5 and list 7 were counted, then a heading, a cue
\* paragraph and an item of list 5: it is numbered 1 and list 7 keeps its
\* count.
C5_Witness ==
    /\ i = 5
    /\ content_elements[1] = NumberedListItem(TxtItem, 0, 5)
    /\ content_elements[2] = NumberedListItem(TxtItem, 0, 7)
    /\ content_elements[3].type = "heading1"
    /\ content_elements[4] = Text(TxtCue)
    /\ content_elements[5] = NumberedListItem(TxtItem, 0, 5)
    /\ RenderedAs(5, 1)
    /\ list_counters = (5 :> (0 :> 1)) @@ (7 :> (0 :> 1))

-----------------------------------------------------------------------------
(* Properties of extraction and of the batch run                           *)

Printed(msg, d) == \E k \in 1..Len(stdout) : stdout[k] = <<msg, d>>

HeadingTypes == {"title", "heading1", "heading2", "heading3"}

\* extract_content_and_images has left its try statement
Left(w) == pc[w] \in {"write", "except"}

\* C6 as claimed: a document whose package has no styles part is extracted
\* with an empty style index and yields no title or heading element,
\* whatever the converter converted before.
C6_Claim_NoStylesPartMeansPlainText ==
    \A w \in Converters :
        ( /\ pc[w] = "finally"
          /\ ~raised[w]
          /\ Packages[cur[w]].styles = "absent" )
        => /\ self_styles[w] = EmptyDict
           /\ \A k \in 1..Len(frame[w].content_elements) :
                  frame[w].content_elements[k].type \notin HeadingTypes

\* what one package gives a fresh converter in an empty working directory
AloneStyles(d) ==
    LoadStyles(EmptyDict, Packages[d].styles, Packages[d].styleDefs)

AloneMapping(d) == ImageMapping(Packages[d].stem, Packages[d].media)

AloneBody(d) ==
    ProcessBody(Packages[d].body,
                IF Packages[d].rels = "ok"
                THEN RidToImage(Packages[d].relDefs, AloneMapping(d))
                ELSE EmptyDict,
                AloneStyles(d), <<>>)

AloneRaises(d) ==
    \/ ~Packages[d].zip
    \/ \E p \in Parts : Packages[d][p] = "malformed"
    \/ Packages[d].document = "ok" /\ AloneBody(d).raised

AloneElements(d) ==
    IF Packages[d].document = "ok" THEN AloneBody(d).elems ELSE <<>>

\* C7 as claimed: of two conversions interleaved in one working directory,
\* each returns without error exactly the elements and the image mapping
\* it returns when run alone.
C7_Claim_ConcurrentEqualsAlone ==
    \A w \in Converters :
        (Left(w) /\ ~AloneRaises(cur[w]))
        => /\ pc[w] = "write"
           /\ frame[w].content_elements = AloneElements(cur[w])
           /\ frame[w].image_mapping = AloneMapping(cur[w])

BatchDone == pc[1] = "idle" /\ queue[1] = <<>>

\* the files convert_file was entered for, in order
Attempted ==
    LET starts == SelectSeq(stdout, LAMBDA m : m[1] = "Processing")
    IN  [k \in 1..Len(starts) |-> starts[k][2]]

\* C8: convert_all enters convert_file for every file of the source
\* directory in sorted order; a file whose conversion raises is reported as
\* an error, and every file whose own conversion does not raise, also after
\* a failed one, is reported created and has its .md written.
C8_BatchContinuesPastFailures ==
    BatchDone =>
        /\ Attempted = SortedFiles(source_dir)
        /\ \A d \in source_dir :
               IF AloneRaises(d)
               THEN Printed("Error", d) /\ d \notin DOMAIN output_dir
               ELSE Printed("Created", d) /\ d \in DOMAIN output_dir

\* C8 witness: the run is over, a.docx (not an archive) failed first,
\* e.docx (malformed XML) failed later, and b.docx and f.docx were written.
C8_Witness ==
    /\ BatchDone
    /\ source_dir = {"a", "b", "e", "f"}
    /\ stdout = << <<"Processing", "a">>, <<"Error", "a">>,
                   <<"Processing", "b">>, <<"Created", "b">>,
                   <<"Processing", "e">>, <<"Error", "e">>,
                   <<"Processing", "f">>, <<"Created", "f">> >>
    /\ DOMAIN output_dir = {"b", "f"}

\* C9: once extract_content_and_images has returned or raised, the temporary
\* extraction directory does not exist.
C9_TempDirRemovedOnEveryPath ==
    \A w \in Converters :
        Left(w) => ~temp_exists /\ temp_files = NoFiles /\ temp_media = {}

\* C9 witness: the extraction of e.docx raised on its malformed document
\* part, after the archive had been unpacked, and the directory is gone.
C9_Witness ==
    /\ pc[1] = "except"
    /\ raised[1]
    /\ cur[1] = "e"
    /\ ~temp_exists

\* C10 as claimed: a package that is no archive, or that has no
\* word/document.xml, is reported as failed and gets no .md file.
C10_Claim_MissingMainPartFails ==
    \A d \in source_dir :
        ( /\ Printed("Created", d) \/ Printed("Error", d)
          /\ ~Packages[d].zip \/ Packages[d].document = "absent" )
        => Printed("Error", d) /\ d \notin DOMAIN output_dir

\* the contents of the .md file of d, or <<>> when there is none
FileOf(dir, d) == IF d \in DOMAIN dir THEN <<dir[d]>> ELSE <<>>

\* C11: the .md file of a document is created or modified only by the step
\* of convert_file that follows a completed extraction and rendering, and it
\* then holds the whole rendered string; the file of a document whose
\* extraction raises is neither created nor modified.
C11_WriteOnlyAfterRendering ==
    [][ \A d \in DocIds :
          FileOf(output_dir', d) # FileOf(output_dir, d)
          => \E w \in Converters :
                 /\ pc[w] = "write" /\ pc'[w] = "idle"
                 /\ cur[w] = d
                 /\ ~raised[w]
                 /\ ~AloneRaises(d)
                 /\ frame[w].content_elements =
                        ProcessBody(Packages[d].body, frame[w].rid_to_image,
                                    self_styles[w], <<>>).elems
                 /\ FileOf(output_dir', d) =
                        <<ConvertToMarkdown(frame[w].content_elements)>>
      ]_vars

\* C11 witness: the extraction of g.docx raised at its second paragraph,
\* after the first one was extracted, and g.md still is what the earlier
\* run left.
C11_Witness ==
    /\ pc[1] = "except"
    /\ cur[1] = "g"
    /\ raised[1]
    /\ frame[1].content_elements = <<Text(TxtRemark)>>
    /\ output_dir["g"] = Stale

\* the archive opens and each of its XML parts is absent or well-formed
PartsReadable(d) ==
    /\ Packages[d].zip
    /\ \A p \in Parts : Packages[d][p] # "malformed"

\* the elements of a body when a body element whose extraction fails is
\* skipped and the walk goes on
RECURSIVE ExtractSkippingFailures(_, _, _)
ExtractSkippingFailures(body, rid_to_image, styles_index) ==
    IF body = <<>> THEN <<>>
    ELSE LET elem == Head(body)
             r == IF elem.tag = "p"
                  THEN ProcessParagraphFormatted(elem, rid_to_image,
                                                 styles_index)
                  ELSE [raised |-> FALSE, elems |-> ProcessTable(elem)]
         IN  (IF r.raised THEN <<>> ELSE r.elems)
             \o ExtractSkippingFailures(Tail(body), rid_to_image, styles_index)

\* C12 as claimed: when the extraction of one body element fails, only that
\* element is skipped: the extraction returns the elements of all other
\* body elements, before and after it, in order.
C12_Claim_FailingElementSkipped ==
    \A w \in Converters :
        (Left(w) /\ PartsReadable(cur[w]) /\ Packages[cur[w]].document = "ok")
        => /\ pc[w] = "write"
           /\ frame[w].content_elements =
                  ExtractSkippingFailures(Packages[cur[w]].body,
                                          frame[w].rid_to_image,
                                          self_styles[w])

\* str.split at newlines
RECURSIVE SplitLines(_)
SplitLines(str) ==
    IF \E k \in 1..Len(str) : str[k] = "\n"
    THEN LET k == CHOOSE x \in 1..Len(str) :
                      /\ str[x] = "\n"
                      /\ \A y \in 1..(x - 1) : str[y] # "\n"
         IN  <<SubSeq(str, 1, k - 1)>>
             \o SplitLines(SubSeq(str, k + 1, Len(str)))
    ELSE <<str>>

\* the body tables of a document, in order
BodyTables(d) == SelectSeq(Packages[d].body, LAMBDA node : node.tag = "tbl")

IsOneByOne(table) == Len(table.rows) = 1 /\ Len(table.rows[1]) = 1

\* the texts of the paragraphs of the only cell that hold text
CellTexts(table) ==
    SelectSeq([k \in 1..Len(table.rows[1][1]) |->
                  RawText(table.rows[1][1][k].runs)],
              LAMBDA t : t # <<>>)

\* the code and table elements among the extracted elements, in order
BlocksOf(elements) ==
    SelectSeq(elements, LAMBDA e : e.type \in {"code", "table"})

\* the .md file of d holds a fenced block for each of the tables in codes
\* and as many lines between bars as the tables in grids have rows, plus a
\* separator for each
RendersTables(d, codes, grids) ==
    LET lines == SplitLines(output_dir[d])
        RowSum[k \in 0..Len(grids)] ==
            IF k = 0 THEN 0 ELSE RowSum[k - 1] + Len(grids[k].rows) + 1
        separator == <<"|", " ", "-", "-", "-">>
    IN  /\ Len(SelectSeq(lines, LAMBDA l : l = FencePython)) = Len(codes)
        /\ Len(SelectSeq(lines, LAMBDA l : l = Fence)) = Len(codes)
        /\ Len(SelectSeq(lines, LAMBDA l : StartsWith(l, separator)))
               = Len(grids)
        /\ Len(SelectSeq(lines, LAMBDA l : StartsWith(l, <<"|">>)))
               = RowSum[Len(grids)]

Extracted(table) == IsOneByOne(table) => CellTexts(table) # <<>>

-----------------------------------------------------------------------------
(* Properties of the blank lines of the output                             *)

\* C14 as claimed: the returned string, split at newlines, never holds
\* three consecutive empty lines, whatever the elements are.
C14_Claim_NoThreeEmptyLines ==
    rpc = "done" =>
        LET lines == SplitLines(result)
        IN  \A k \in 1..(Len(lines) - 2) :
                ~(lines[k] = <<>> /\ lines[k + 1] = <<>> /\ lines[k + 2] = <<>>)

\* the loop state after the first n elements of content_elements
RECURSIVE StateThrough(_)
StateThrough(n) ==
    IF n = 0 THEN LoopStart
    ELSE LoopBody(content_elements, n, StateThrough(n - 1))

\* the number of lines of the output that the first n elements account for
LinesThrough(n) ==
    Len(SplitLines(FinalString(StateThrough(n).markdown_lines)))

IsSpacer(e) == e.type = "text" /\ Strip(e.content) = <<>>

\* C15 as claimed: a non-empty Text that is the next emitted content after
\* a numbered item, directly or after empty Text spacers, stands exactly
\* one blank line below the line of the item in the returned string.
C15_Claim_OneBlankLineAfterList ==
    rpc = "done" =>
        \A j \in 1..Len(content_elements) :
            \A k \in (j + 1)..Len(content_elements) :
                ( /\ IsItem(content_elements[j])
                  /\ IsNonEmptyText(content_elements[k])
                  /\ \A m \in (j + 1)..(k - 1) : IsSpacer(content_elements[m]) )
                => LET lines == SplitLines(result)
                       a == LinesThrough(j)
                   IN  /\ Len(lines) >= a + 2
                       /\ lines[a] = ListLine(content_elements[j].level,
                              StateThrough(j).list_counters
                                  [content_elements[j].numId]
                                  [content_elements[j].level],
                              content_elements[j].content)
                       /\ lines[a + 1] = <<>>
                       /\ lines[a + 2] = content_elements[k].content

-----------------------------------------------------------------------------
(* Properties of the image files                                           *)

MediaName(m) == m.stem \o m.suffix

\* the media files of a document that line 60 takes for images
ImagesOf(d) == { m \in Packages[d].media : Lower(m.suffix) \in ImageSuffixes }

\* docx_path.stem with spaces as underscores and without colons
DocName(d) ==
    LET stem == Packages[d].stem
        Out(c) == IF c = " " THEN <<"_">> ELSE IF c = ":" THEN <<>> ELSE <<c>>
        Walk[k \in 0..Len(stem)] ==
            IF k = 0 THEN <<>> ELSE Walk[k - 1] \o Out(stem[k])
    IN  Walk[Len(stem)]

\* C16 as claimed: two media files with identical bytes, in documents with
\* the same stem, receive the identical output filename (here: two media
\* files of one document).
C16_Original_SameBytesSameFilename ==
    \A w \in Converters :
        pc[w] = "parse" =>
            \A m1 \in ImagesOf(cur[w]) : \A m2 \in ImagesOf(cur[w]) :
                m1.bytes = m2.bytes
                => frame[w].image_mapping[MediaName(m1)]
                       = frame[w].image_mapping[MediaName(m2)]

\* C16 amended: a media file receives the filename that every media file of
\* the same name and the same bytes receives in a document of the same stem
\* (also of a stem that differs in spaces, underscores and colons only),
\* whatever was converted before it; the copy of that name holds its bytes.
C16_SameFileSameFilename ==
    \A w \in Converters :
        pc[w] = "parse" =>
            \A m \in ImagesOf(cur[w]) :
                /\ MediaName(m) \in DOMAIN frame[w].image_mapping
                /\ LET f == frame[w].image_mapping[MediaName(m)]
                   IN  /\ f \in DOMAIN images_dir
                       /\ images_dir[f] = m.bytes
                       /\ \A d \in DocIds : \A n \in ImagesOf(d) :
                              ( /\ DocName(d) = DocName(cur[w])
                                /\ MediaName(n) = MediaName(m)
                                /\ n.bytes = m.bytes )
                              => AloneMapping(d)[MediaName(n)] = f

\* C16 witness: "p q.docx" was converted, and "p_q.docx", whose img1.png has
\* the same bytes, has just been given the filename that is already there.
C16_Witness ==
    /\ Printed("Created", "m")
    /\ cur[1] = "o"
    /\ pc[1] = "parse"
    /\ frame[1].image_mapping[MediaName(Img1Of(BytesA))]
           = AloneMapping("m")[MediaName(Img1Of(BytesA))]
    /\ DOMAIN images_dir =
           { AloneMapping("m")[MediaName(Img1Of(BytesA))],
             AloneMapping("m")[MediaName(Img2Of(BytesA))] }

HashInName(f) ==
    LET dots == { k \in 1..Len(f) : f[k] = "." }
        dot == CHOOSE k \in dots : \A j \in dots : j <= k
    IN  IF dots # {} /\ dot > 8 THEN SubSeq(f, dot - 8, dot - 1) ELSE <<>>

-----------------------------------------------------------------------------
(* Properties of the extracted element sequence                            *)

\* the relationship id names an image relationship of the document whose
\* target lies under media/ and is a media file taken for an image
Resolvable(d, embed) ==
    /\ Packages[d].rels = "ok"
    /\ \E k \in 1..Len(Packages[d].relDefs) :
           LET rel == Packages[d].relDefs[k]
           IN  /\ rel.Id = embed
               /\ Contains(<<"i", "m", "a", "g", "e">>, rel.Type)
               /\ StartsWith(rel.Target, MediaPrefix)
               /\ \E m \in ImagesOf(d) : MediaName(m) = Basename(rel.Target)

\* the paragraphs of the body with a drawing whose relationship id resolves
ResolvedDrawings(d) ==
    SelectSeq(Packages[d].body,
              LAMBDA node : /\ node.tag = "p"
                            /\ node.drawing
                            /\ Resolvable(d, node.embed))

\* every numbering value of the body reads as an integer
NumberingReadable(d) ==
    \A k \in 1..Len(Packages[d].body) :
        LET node == Packages[d].body[k]
        IN  node.numPr # <<>>
            => IsInt(node.numPr[1].ilvl) /\ IsInt(node.numPr[1].numId)

ImageLinePrefix == <<"!", "[">>

\* C18: a drawing whose relationship id is not in the rId-to-filename table
\* (no relationship, a relationship that is no image, a target outside
\* media/, a media file that is not tracked) gives no image element and no
\* image line, and the extraction returns: the image elements and the image
\* lines are exactly those of the drawings that resolve, in order.
C18_UnresolvedDrawingGivesNothing ==
    \A w \in Converters : \A d \in source_dir :
        /\ ( /\ Left(w) /\ cur[w] = d
             /\ PartsReadable(d) /\ NumberingReadable(d) )
           => /\ pc[w] = "write"
              /\ LET images == SelectSeq(frame[w].content_elements,
                                         LAMBDA e : e.type = "image")
                     drawings == ResolvedDrawings(d)
                 IN  /\ Len(images) = Len(drawings)
                     /\ \A k \in 1..Len(images) :
                            /\ images[k].filename
                                   = frame[w].rid_to_image[drawings[k].embed]
                            /\ images[k].filename \in DOMAIN images_dir
        /\ Printed("Created", d)
           => Len(SelectSeq(SplitLines(output_dir[d]),
                            LAMBDA l : StartsWith(l, ImageLinePrefix)))
                  = Len(ResolvedDrawings(d))

\* C18 witness: r.docx, with one drawing that resolves and five that do
\* not, was converted to one image line and the text of the paragraph that
\* held an unresolved drawing.
C18_Witness ==
    /\ Printed("Created", "r")
    /\ Len(ResolvedDrawings("r")) = 1
    /\ SplitLines(output_dir["r"]) =
           << ImageLine(Image(AloneMapping("r")[MediaName(Img1)])),
              <<>>, TxtRemark >>

\* how many elements a body node gives: a paragraph without a drawing one,
\* a paragraph with a drawing one for a resolved image and one for its text,
\* a table one unless it is a 1x1 table without text
Yield(d, node) ==
    IF node.tag = "p"
    THEN IF node.drawing
         THEN (IF Resolvable(d, node.embed) THEN 1 ELSE 0)
              + (IF ExtractTextWithFormatting(node.runs) # <<>> THEN 1 ELSE 0)
         ELSE 1
    ELSE IF Extracted(node) THEN 1 ELSE 0

\* the number of elements the first k body nodes of d give
YieldThrough(d, k) ==
    LET Sum[j \in 0..k] ==
            IF j = 0 THEN 0 ELSE Sum[j - 1] + Yield(d, Packages[d].body[j])
    IN  Sum[k]

ParagraphTypes ==
    {"text", "title", "heading1", "heading2", "heading3", "numbered_list"}

C20_NumberingWinsOverStyle ==
    \A w \in Converters : \A d \in source_dir :
        (pc[w] = "write" /\ cur[w] = d) =>
            \A k \in 1..Len(Packages[d].body) :
                LET node == Packages[d].body[k]
                    e == frame[w].content_elements[YieldThrough(d, k)]
                    kind == StyleType(GetParagraphStyle(node, self_styles[w]))
                IN  ( /\ node.tag = "p"
                      /\ ~node.drawing \/ ExtractTextWithFormatting(node.runs) # <<>> )
                    => IF node.numPr # <<>>
                       THEN e = NumberedListItem(
                                    ExtractTextWithFormatting(node.runs),
                                    ParseInt(node.numPr[1].ilvl),
                                    ParseInt(node.numPr[1].numId))
                       ELSE e.type = kind /\ e.level = 0 /\ e.numId = 0

\* C20 witness: in s.docx the numbered paragraph of style Title is item
\* (level 1, list 7), the numbered paragraph of style heading 1 is item
\* (level 0, list 7), and the Title paragraph without numbering is a title.
C20_Witness ==
    /\ pc[1] = "write"
    /\ cur[1] = "s"
    /\ StyleType(GetParagraphStyle(Packages["s"].body[2], self_styles[1]))
           = "title"
    /\ StyleType(GetParagraphStyle(Packages["s"].body[3], self_styles[1]))
           = "heading1"
    /\ frame[1].content_elements[2] = NumberedListItem(TxtItem, 1, 7)
    /\ frame[1].content_elements[3] = NumberedListItem(<<>>, 0, 7)
    /\ frame[1].content_elements[4] = Styled("title", TxtHead)

-----------------------------------------------------------------------------
(* Properties of _process_paragraph_formatted on one paragraph             *)

\* the call returned and appended a text-bearing element for the paragraph
Appended ==
    /\ cpc = "returned"
    /\ ~raised[1]
    /\ frame[1].content_elements # <<>>
    /\ Last(frame[1].content_elements).type # "image"
    /\ (ExtractTextWithFormatting(xml_elem.runs) # <<>> \/ ~xml_elem.drawing)

\* the words of the classification in their order of precedence
StyleWords == <<TitleWord, Heading1Word, Heading2Word, Heading3Word>>
StyleKinds == <<"title", "heading1", "heading2", "heading3">>

\* the word occurs in the name when letter case is ignored
Mentions(word, name) ==
    \E at \in 0..(Len(name) - Len(word)) :
        \A j \in 1..Len(word) : LowerChar(name[at + j]) = word[j]

\* the type the claim gives to a paragraph of style id sid under an index
ClaimedType(sid, index) ==
    IF sid \notin DOMAIN index THEN "text"
    ELSE LET hits == { k \in 1..4 : Mentions(StyleWords[k], index[sid].name) }
         IN  IF hits = {} THEN "text"
             ELSE StyleKinds[CHOOSE k \in hits : \A h \in hits : k <= h]

\* C21: a paragraph without numbering gets the type of the first of the
\* words title, heading 1, heading 2, heading 3 that its style name holds,
\* letter case ignored; with no such word, or with a style id that the style
\* index lacks, it is a text element.
C21_StyleClassifiedByFirstMatch ==
    (Appended /\ xml_elem.numPr = <<>>)
        => Last(frame[1].content_elements).type
               = ClaimedType(xml_elem.pStyle, self_styles[1])

\* a paragraph whose style name holds TITLE and heading 2 has become a title
C21_Witness ==
    /\ Appended
    /\ xml_elem.numPr = <<>>
    /\ xml_elem.pStyle \in DOMAIN self_styles[1]
    /\ self_styles[1][xml_elem.pStyle].name = NameBoth
    /\ Last(frame[1].content_elements).type = "title"

\* the emphasis markers of a run: two for bold and one more for italic
Stars(r) ==
    Repeat(<<"*">>, (IF r.bold THEN 2 ELSE 0) + (IF r.italic THEN 1 ELSE 0))

\* the text of a run: the texts of its w:t children in order
RunText(r) == JoinWith(<<>>, r.texts)

\* the text of a run between its markers
Wrapped(r) ==
    IF RunText(r) = <<>> THEN <<>> ELSE Stars(r) \o RunText(r) \o Stars(r)

\* C22 as claimed: the text of a paragraph is the concatenation, in
\* document order and without separator, of the text of each run wrapped
\* once in the markers of its flags (three stars for bold and italic, two
\* for bold, one for italic, none otherwise).
C22_Claim_RunTextWrappedOnce ==
    Appended
        => Last(frame[1].content_elements).content
               = JoinWith(<<>>, [k \in 1..Len(xml_elem.runs) |->
                                   Wrapped(xml_elem.runs[k])])

-----------------------------------------------------------------------------
(* Properties of the lines of one element                                  *)

\* this transition is the loop iteration on an element of the given type
Stepped(kind) ==
    /\ rpc = "loop"
    /\ i' = i + 1
    /\ content_elements[i'].type = kind

\* the lines this transition appended to markdown_lines
NewLines ==
    SubSeq(markdown_lines', Len(markdown_lines) + 1, Len(markdown_lines'))

\* this transition kept the lines that were there
KeepsLines ==
    /\ Len(markdown_lines') >= Len(markdown_lines)
    /\ SubSeq(markdown_lines', 1, Len(markdown_lines)) = markdown_lines

\* a table line: a bar, then each cell between spaces and closed by a bar
RECURSIVE Bars(_)
Bars(row) ==
    IF row = <<>> THEN <<"|">>
    ELSE Bars(SubSeq(row, 1, Len(row) - 1)) \o <<" ">> \o Last(row)
             \o <<" ", "|">>

Dashes == <<"-", "-", "-">>

\* C23: a table element of R >= 1 rows appends R + 2 lines: its first row
\* as a header, a separator with one --- for each cell of the first row,
\* the other R - 1 rows in their order, and one empty line.
C23_TableIsHeaderSeparatorRows ==
    [][Stepped("table") =>
          LET data == content_elements[i'].data
              R == Len(data)
          IN  /\ KeepsLines
              /\ Len(NewLines) = R + 2
              /\ NewLines[1] = Bars(data[1])
              /\ NewLines[2] = Bars([k \in 1..Len(data[1]) |-> Dashes])
              /\ \A k \in 2..R : NewLines[k + 1] = Bars(data[k])
              /\ NewLines[R + 2] = <<>>]_vars

\* the table of two rows of three cells has been rendered as four lines
C23_Witness ==
    /\ i >= 1
    /\ content_elements[i] = Table(Grid2x3)
    /\ Len(markdown_lines) >= 4
    /\ SubSeq(markdown_lines, Len(markdown_lines) - 3, Len(markdown_lines))
           = <<Bars(Grid2x3[1]), Bars(<<Dashes, Dashes, Dashes>>),
               Bars(Grid2x3[2]), <<>> >>

\* C24: a non-empty Text appends its content line, and after it one empty
\* line when an element follows that is no numbered item; when a numbered
\* item follows, or when the Text is the last element, nothing comes after
\* its line.  (Before its line comes the empty line that separates it from
\* a list, and only when the element before it is a numbered item.)
C24_BlankAfterTextUnlessItemFollows ==
    [][(Stepped("text") /\ Strip(content_elements[i'].content) # <<>>) =>
          LET e == content_elements[i']
              after == IF /\ i' < Len(content_elements)
                          /\ content_elements[i' + 1].type # "numbered_list"
                       THEN << <<>> >>
                       ELSE <<>>
          IN  /\ KeepsLines
              /\ \/ NewLines = <<e.content>> \o after
                 \/ /\ NewLines = << <<>>, e.content>> \o after
                    /\ i >= 1
                    /\ content_elements[i].type = "numbered_list"]_vars

\* a paragraph was followed directly by the line of a numbered item
C24_Witness ==
    /\ i >= 2
    /\ content_elements[i - 1] = Text(TxtRemark)
    /\ content_elements[i].type = "numbered_list"
    /\ Len(markdown_lines) >= 2
    /\ markdown_lines[Len(markdown_lines) - 1] = TxtRemark
    /\ Last(markdown_lines) = ListLine(0, 1, TxtItem)

\* C25: an empty or blank Text appends one empty line when the renderer is
\* not in list context and nothing when it is; it leaves the list counters
\* and the list context as they were.
C25_EmptyTextIsBlankLineOutsideLists ==
    [][(Stepped("text") /\ Strip(content_elements[i'].content) = <<>>) =>
          /\ KeepsLines
          /\ NewLines = (IF in_list_context THEN <<>> ELSE << <<>> >>)
          /\ list_counters' = list_counters
          /\ in_list_context' = in_list_context]_vars

\* a blank Text right after a numbered item has appended nothing and left
\* the counter of the item
C25_Witness ==
    /\ i >= 2
    /\ content_elements[i - 1].type = "numbered_list"
    /\ content_elements[i] = Text(<<" ">>)
    /\ in_list_context
    /\ Last(markdown_lines) = ListLine(0, 1, TxtItem)
    /\ list_counters = (5 :> (0 :> 1))

-----------------------------------------------------------------------------
(* Properties of successive renders on one converter                       *)

\* C26: the string a call of convert_to_markdown returns is the string a
\* first call on the same element sequence returns, whatever the converter
\* rendered before; a sequence rendered twice gives the same string twice.
C26_RenderDependsOnSequenceOnly ==
    rpc = "done" =>
        /\ result = ConvertToMarkdown(content_elements)
        /\ \A k \in 1..Len(returned) :
               returned[k].elements = content_elements
                   => returned[k].markdown = result

\* after a document that ends inside a list, a document that starts with
\* an empty paragraph and an item is rendered with its empty line and with
\* the number 1
C26_Witness ==
    /\ rpc = "done"
    /\ Len(returned) = 1
    /\ returned[1].elements = <<NumberedListItem(TxtItem, 0, 5)>>
    /\ content_elements = <<Text(<<>>), NumberedListItem(TxtItem, 0, 5)>>
    /\ result = <<"\n">> \o ListLine(0, 1, TxtItem)

-----------------------------------------------------------------------------
(* Properties of code blocks and of the list state                         *)

\* the longest run of backquotes in a string is shorter than three
NoFenceIn(str) ==
    \A at \in 1..(Len(str) - 2) :
        ~(str[at] = Backquote /\ str[at + 1] = Backquote
              /\ str[at + 2] = Backquote)

\* C27: a code element appends an opening fence tagged with its language,
\* one body, a closing fence and an empty line, and the body holds no run
\* of three backquotes.
C27_CodeBodyHoldsNoFence ==
    [][Stepped("code") =>
          /\ KeepsLines
          /\ Len(NewLines) = 4
          /\ NewLines[1] = Fence \o content_elements[i'].language
          /\ NoFenceIn(NewLines[2])
          /\ NewLines[3] = Fence
          /\ NewLines[4] = <<>>]_vars

\* code whose backquotes close up to fences when the tagged fence between
\* them is removed has been rendered with the body x and one backquote
C27_Witness ==
    /\ i >= 1
    /\ content_elements[i] = Code(TxtNested)
    /\ Len(markdown_lines) >= 4
    /\ SubSeq(markdown_lines, Len(markdown_lines) - 3, Len(markdown_lines))
           = <<FencePython, <<"x", Backquote>>, Fence, <<>> >>

\* every counter that list_counters stores is at least 1
CountersPositive ==
    \A id \in DOMAIN list_counters :
        \A lvl \in DOMAIN list_counters[id] : list_counters[id][lvl] >= 1

\* the element rendered last is a numbered item; its list has a counter for
\* its level and none for a deeper level
ItemCounterKept ==
    (i >= 1 /\ content_elements[i].type = "numbered_list") =>
        LET e == content_elements[i]
        IN  /\ e.numId \in DOMAIN list_counters
            /\ e.level \in DOMAIN list_counters[e.numId]
            /\ \A lvl \in DOMAIN list_counters[e.numId] : lvl <= e.level

\* this transition is one of those that may assign list_counters: the
\* iteration on a numbered item (which holds the deletion at a list
\* introduction), or on a non-empty Text right after a numbered item
MayCount ==
    \/ Stepped("numbered_list")
    \/ /\ Stepped("text")
       /\ Strip(content_elements[i'].content) # <<>>
       /\ i >= 1
       /\ content_elements[i].type = "numbered_list"

\* C28: every stored counter is at least 1; right after a numbered item of
\* list X at level L, list_counters[X] holds a counter for L and none for a
\* level above L; list_counters changes only in the iteration on a numbered
\* item or at a reset.
C28_CountersPositiveTrimmedAndOwned ==
    /\ [](CountersPositive /\ ItemCounterKept)
    /\ [][list_counters' # list_counters => MayCount]_vars

\* after an item at level 1 and an item at level 0 of list 5, the list
\* holds the counter 1 for level 0 only
C28_Witness ==
    /\ i = 2
    /\ content_elements[1] = NumberedListItem(TxtItem, 1, 5)
    /\ content_elements[2] = NumberedListItem(TxtItem, 0, 5)
    /\ list_counters = (5 :> (0 :> 1))

\* C29: the iteration on a numbered item of list X leaves the counters of
\* every other list as they were (and makes no other list appear).
C29_ItemLeavesOtherListsAlone ==
    [][Stepped("numbered_list") =>
          LET X == content_elements[i'].numId
          IN  /\ DOMAIN list_counters' \ {X} = DOMAIN list_counters \ {X}
              /\ \A id \in DOMAIN list_counters \ {X} :
                     list_counters'[id] = list_counters[id]]_vars

\* items of lists 5, 7, 5 at level 0 have been rendered as 1, 1, 2
C29_Witness ==
    /\ i = 3
    /\ content_elements[1] = NumberedListItem(TxtItem, 0, 5)
    /\ content_elements[2] = NumberedListItem(TxtItem, 0, 7)
    /\ content_elements[3] = NumberedListItem(TxtItem, 0, 5)
    /\ markdown_lines = <<ListLine(0, 1, TxtItem), ListLine(0, 1, TxtItem),
                          ListLine(0, 2, TxtItem)>>

\* C30: a numbered item sets the list context; the context is cleared by
\* a non-empty Text right after a numbered item and by nothing else (not by
\* a heading, image, code block, table or empty Text, and not by a
\* non-empty Text that such an element separates from the list); while it
\* is set, an empty Text appends nothing.
C30_ListContextLastsUntilParagraphAfterItem ==
    [][/\ Stepped("numbered_list") => in_list_context'
       /\ (in_list_context /\ ~in_list_context') =>
              /\ Stepped("text")
              /\ Strip(content_elements[i'].content) # <<>>
              /\ i >= 1
              /\ content_elements[i].type = "numbered_list"
       /\ (/\ Stepped("text")
           /\ Strip(content_elements[i'].content) # <<>>
           /\ i >= 1
           /\ content_elements[i].type = "numbered_list") => ~in_list_context'
       /\ (/\ Stepped("text")
           /\ Strip(content_elements[i'].content) = <<>>
           /\ in_list_context) => NewLines = <<>>]_vars

\* an item, a heading and a paragraph have been rendered and the list
\* context is still set
C30_Witness ==
    /\ i >= 3
    /\ content_elements[i - 2].type = "numbered_list"
    /\ content_elements[i - 1].type = "heading1"
    /\ content_elements[i] = Text(TxtRemark)
    /\ in_list_context

====
